---------------------------- MODULE Spec2Model ----------------------------
(***************************************************************************)
(* A model of the EDIFACT PRODCAT generator (src/version3/prodcat3.py):   *)
(* the escaper, the segment encoder, the template registry, the record     *)
(* validator and the buffered and streaming message assemblers.            *)
(*                                                                         *)
(* Text is a string, handled character by character (Len, SubSeq and \o   *)
(* on strings).  A file is a sequence of lines, one rendered segment per   *)
(* line.                                                                   *)
(*                                                                         *)
(* Specifications: SpecEscape (the escaper on its own), Spec (calls of     *)
(* create_prodcat_file on one generator), SpecDirect (calls of             *)
(* create_prodcat_file_streaming itself), SpecSplit (one call of           *)
(* create_prodcat_files), SpecConstruct (constructor calls with good and   *)
(* bad identifiers), SpecShared (several generators of one process),       *)
(* SpecValidate (validate_product on its own, with registered rules),      *)
(* SpecNumeric (generation from records that hold a number), SpecLowerCase *)
(* (generation from records with lower-case codes), SpecVerify             *)
(* (verify_edi_file on its own), SpecFormat (_format_segment on its own)   *)
(* and SpecTemplate (the template registry on its own).                    *)
(***************************************************************************)
EXTENDS Integers, Sequences, FiniteSets, TLC

(***************************************************************************)
(* Bounds of the model.                                                    *)
(***************************************************************************)
\* longest string handed to the escaper on its own
MaxLen == 3
\* longest record collection
MaxProducts == 2
\* generation calls made on the generator in one behaviour
MaxCalls == 2
\* seconds the clock may advance
MaxClock == 1
\* limits.chunk_size of the external configuration that lowers it
SmallChunk == 1
\* constructor calls made in one behaviour
MaxGenerators == 3
\* validation rules registered on one generator
MaxRules == 2
\* longest file handed to verify_edi_file on its own, in segments
MaxSegments == 5
\* longest element list handed to _format_segment on its own
MaxElements == 4

(***************************************************************************)
(* CONFIG['delimiters'] (prodcat3.py 20-26), in dictionary order.          *)
(***************************************************************************)
Delimiters ==
    [component |-> ":", data |-> "+", decimal |-> ".", escape |-> "?",
     terminator |-> "'"]

\* CONFIG['delimiters'].values(): Python iterates a dict in insertion order
DelimiterValues ==
    <<Delimiters.component, Delimiters.data, Delimiters.decimal,
      Delimiters.escape, Delimiters.terminator>>

ControlChars == {DelimiterValues[i] : i \in DOMAIN DelimiterValues}

(***************************************************************************)
(* Python string primitives.                                               *)
(***************************************************************************)
\* s[i], as a one-character string
CharAt(s, i) == SubSeq(s, i, i)

\* char in data
Contains(data, char) == \E i \in 1..Len(data) : CharAt(data, i) = char

\* data.replace(char, new): every occurrence, left to right
RECURSIVE StrReplace(_, _, _)
StrReplace(data, char, new) ==
    IF data = "" THEN ""
    ELSE (IF CharAt(data, 1) = char THEN new ELSE CharAt(data, 1))
         \o StrReplace(SubSeq(data, 2, Len(data)), char, new)

(***************************************************************************)
(* _escape_data (prodcat3.py 262-267): one whole-string substitution per   *)
(* delimiter, in the order of CONFIG['delimiters'].values().               *)
(***************************************************************************)
RECURSIVE EscapeLoop(_, _)
EscapeLoop(data, k) ==
    IF k > Len(DelimiterValues) THEN data
    ELSE LET char == DelimiterValues[k]
         IN  EscapeLoop(IF Contains(data, char)
                        THEN StrReplace(data, char, Delimiters.escape \o char)
                        ELSE data,
                        k + 1)

_escape_data(data) == EscapeLoop(data, 1)

(***************************************************************************)
(* The escaping contract of the specification (section 4.1): one release   *)
(* character before each control character of the original string, in a    *)
(* single left-to-right pass, and its left inverse.  The repository holds  *)
(* no decoder; unescape is modelled from the specification.                *)
(***************************************************************************)
RECURSIVE SinglePassEscape(_)
SinglePassEscape(s) ==
    IF s = "" THEN ""
    ELSE (IF CharAt(s, 1) \in ControlChars
          THEN Delimiters.escape \o CharAt(s, 1) ELSE CharAt(s, 1))
         \o SinglePassEscape(SubSeq(s, 2, Len(s)))

RECURSIVE unescape(_)
unescape(s) ==
    IF s = "" THEN ""
    ELSE IF CharAt(s, 1) = Delimiters.escape /\ Len(s) >= 2
         THEN CharAt(s, 2) \o unescape(SubSeq(s, 3, Len(s)))
         ELSE CharAt(s, 1) \o unescape(SubSeq(s, 2, Len(s)))

NumControl(s) == Cardinality({i \in 1..Len(s) : CharAt(s, i) \in ControlChars})

(***************************************************************************)
(* More Python built-ins, as the code uses them.                           *)
(***************************************************************************)
Digits == "0123456789"

DigitChars ==
    {"0", "1", "2", "3", "4", "5", "6", "7", "8", "9"}

LowerChars ==
    {"a", "b", "c", "d", "e", "f", "g", "h", "i", "j", "k", "l", "m", "n",
     "o", "p", "q", "r", "s", "t", "u", "v", "w", "x", "y", "z"}

UpperChars ==
    {"A", "B", "C", "D", "E", "F", "G", "H", "I", "J", "K", "L", "M", "N",
     "O", "P", "Q", "R", "S", "T", "U", "V", "W", "X", "Y", "Z"}

\* str.upper(), one character
UpperOf ==
    [a |-> "A", b |-> "B", c |-> "C", d |-> "D", e |-> "E", f |-> "F",
     g |-> "G", h |-> "H", i |-> "I", j |-> "J", k |-> "K", l |-> "L",
     m |-> "M", n |-> "N", o |-> "O", p |-> "P", q |-> "Q", r |-> "R",
     s |-> "S", t |-> "T", u |-> "U", v |-> "V", w |-> "W", x |-> "X",
     y |-> "Y", z |-> "Z"]

UpperChar(c) == IF c \in LowerChars THEN UpperOf[c] ELSE c

\* str.upper()
RECURSIVE StrUpper(_)
StrUpper(s) ==
    IF s = "" THEN ""
    ELSE UpperChar(CharAt(s, 1)) \o StrUpper(SubSeq(s, 2, Len(s)))

\* str.strip(): leading and trailing blanks removed
RECURSIVE LStrip(_)
LStrip(s) ==
    IF s # "" /\ CharAt(s, 1) = " " THEN LStrip(SubSeq(s, 2, Len(s))) ELSE s

RECURSIVE RStrip(_)
RStrip(s) ==
    IF s # "" /\ CharAt(s, Len(s)) = " " THEN RStrip(SubSeq(s, 1, Len(s) - 1)) ELSE s

StrStrip(s) == RStrip(LStrip(s))

\* s.startswith(prefix)
StartsWith(s, prefix) ==
    Len(s) >= Len(prefix) /\ SubSeq(s, 1, Len(prefix)) = prefix

\* sep.join(parts)
RECURSIVE Join(_, _)
Join(sep, parts) ==
    IF parts = <<>> THEN ""
    ELSE IF Len(parts) = 1 THEN parts[1]
    ELSE parts[1] \o sep \o Join(sep, Tail(parts))

\* str(n) of a natural number
RECURSIVE NatStr(_)
NatStr(n) ==
    IF n < 10 THEN CharAt(Digits, n + 1)
    ELSE NatStr(n \div 10) \o CharAt(Digits, (n % 10) + 1)

(***************************************************************************)
(* Python values.  A record field or a segment element is None, a string,  *)
(* a whole number or a list of such values.  A record of the model has     *)
(* every field name: None stands for a key the mapping does not hold.      *)
(***************************************************************************)
None == [t |-> "none", v |-> ""]
Str(s) == [t |-> "str", v |-> s]
Num(n) == [t |-> "num", v |-> n]
List(items) == [t |-> "list", v |-> items]

\* bool(x)
Truthy(x) ==
    CASE x.t = "none" -> FALSE
      [] x.t = "num" -> x.v # 0
      [] OTHER -> x.v # ""

\* str(x)
PyStr(x) ==
    CASE x.t = "none" -> "None"
      [] x.t = "num" -> NatStr(x.v)
      [] OTHER -> x.v

\* str.isascii() over the printable characters (the backquote left out)
AsciiChars ==
    {" ", "!", "\"", "#", "$", "%", "&", "'", "(", ")", "*", "+", ",", "-",
     ".", "/", "0", "1", "2", "3", "4", "5", "6", "7", "8", "9", ":", ";",
     "<", "=", ">", "?", "@", "A", "B", "C", "D", "E", "F", "G", "H", "I",
     "J", "K", "L", "M", "N", "O", "P", "Q", "R", "S", "T", "U", "V", "W",
     "X", "Y", "Z", "[", "\\", "]", "^", "_", "a", "b", "c", "d", "e", "f",
     "g", "h", "i", "j", "k", "l", "m", "n", "o", "p", "q", "r", "s", "t",
     "u", "v", "w", "x", "y", "z", "{", "|", "}", "~"}

IsAscii(s) == \A k \in 1..Len(s) : CharAt(s, k) \in AsciiChars

\* sanitize_value (prodcat3.py 117-121)
sanitize_value(value, uppercase) ==
    LET result == StrStrip(PyStr(value))
    IN  IF uppercase THEN StrUpper(result) ELSE result

(***************************************************************************)
(* re.match for the patterns the configuration holds.                      *)
(***************************************************************************)
IdPattern == "^[A-Z0-9\\-\\. ]{1,35}$"
Date8Pattern == "^\\d{8}$"
Date6Pattern == "^\\d{6}$"
DateTimePattern == "^\\d{8}:\\d{6}$"

AllIn(s, chars) == \A i \in 1..Len(s) : CharAt(s, i) \in chars

\* the character classes of the patterns and of a decimal numeral
IdChars ==
    {"A", "B", "C", "D", "E", "F", "G", "H", "I", "J", "K", "L", "M", "N",
     "O", "P", "Q", "R", "S", "T", "U", "V", "W", "X", "Y", "Z", "0", "1",
     "2", "3", "4", "5", "6", "7", "8", "9", "-", ".", " "}

NumeralChars ==
    {"0", "1", "2", "3", "4", "5", "6", "7", "8", "9", "."}

NonZeroDigitChars ==
    {"1", "2", "3", "4", "5", "6", "7", "8", "9"}

ReMatch(pattern, s) ==
    CASE pattern = IdPattern ->
            /\ Len(s) >= 1 /\ Len(s) <= 35
            /\ AllIn(s, IdChars)
      [] pattern = Date8Pattern -> Len(s) = 8 /\ AllIn(s, DigitChars)
      [] pattern = Date6Pattern -> Len(s) = 6 /\ AllIn(s, DigitChars)
      [] pattern = DateTimePattern ->
            /\ Len(s) = 15 /\ CharAt(s, 9) = ":"
            /\ AllIn(SubSeq(s, 1, 8) \o SubSeq(s, 10, 15), DigitChars)
      [] OTHER -> FALSE

(***************************************************************************)
(* float(s) for plain decimal numerals: an optional sign, digits and at    *)
(* most one decimal point.  ok: the text parses; positive: its value > 0.  *)
(***************************************************************************)
ParseFloat(s) ==
    LET signed == s # "" /\ CharAt(s, 1) \in {"-", "+"}
        body   == IF signed THEN SubSeq(s, 2, Len(s)) ELSE s
        points == Cardinality({i \in 1..Len(body) : CharAt(body, i) = "."})
        ok     == /\ AllIn(body, NumeralChars)
                  /\ points <= 1
                  /\ \E i \in 1..Len(body) : CharAt(body, i) \in DigitChars
    IN  [ok |-> ok,
         positive |-> /\ ok
                      /\ ~(signed /\ CharAt(s, 1) = "-")
                      /\ \E i \in 1..Len(body) : CharAt(body, i) \in NonZeroDigitChars]

(***************************************************************************)
(* CONFIG (prodcat3.py 19-57), a class attribute, and _merge_configs        *)
(* (90-96).                                                                *)
(***************************************************************************)
DefaultConfig ==
    [delimiters |-> Delimiters,
     default_values |->
        [syntax_identifier |-> Str("UNOA"), syntax_version_number |-> Str("3"),
         message_type |-> Str("PRODCAT"), message_version |-> Str("D"),
         message_release |-> Str("01B"), controlling_agency |-> Str("UN"),
         association_assigned_code |-> Str("UN"), partner_qualifier |-> Str("ZZZ"),
         test_indicator |-> None, price_qualifier |-> Str("AAA"),
         quantity_qualifier |-> Str("12"), description_type |-> Str("F")],
     validation |->
        [allowed_id_chars |-> IdPattern,
         required_product_fields |->
            <<"description", "quantity", "unit", "price", "currency">>,
         valid_currencies |-> {"USD", "EUR", "GBP", "JPY", "CAD", "AUD", "CHF", "CNY"},
         valid_units |-> {"PCE", "KGM", "MTR", "LTR", "MTK", "MTQ", "CMT"},
         date_formats |->
            ("102" :> Date8Pattern) @@ ("203" :> Date6Pattern)
            @@ ("102:203" :> DateTimePattern)],
     limits |->
        [max_products_per_file |-> 10000, chunk_size |-> 1000,
         max_file_size_mb |-> 50]]

\* dict.update: the keys of value replace or extend those of d
DictUpdate(d, value) ==
    [k \in DOMAIN d \cup DOMAIN value |-> IF k \in DOMAIN value THEN value[k] ELSE d[k]]

\* every value of an external configuration of the model is a dictionary
_merge_configs(config, external_config) ==
    [key \in DOMAIN config \cup DOMAIN external_config |->
        IF key \notin DOMAIN external_config THEN config[key]
        ELSE IF key \in DOMAIN config
             THEN DictUpdate(config[key], external_config[key])
             ELSE external_config[key]]

(***************************************************************************)
(* State.                                                                  *)
(***************************************************************************)
VARIABLES
    data,       \* the string handed to _escape_data
    escaped,    \* [done, out]: the result of _escape_data(data), once called
    args,       \* [tag, elements]: the arguments handed to _format_segment
    rendered,   \* [done, out]: the segment _format_segment returned, once called
    record,     \* the record handed to validate_product
    verdict,    \* [done, raises, accepted]: what validate_product(record) did
    verification,  \* the result of verify_edi_file, once called
    request,    \* [segment_type, kwargs]: handed to _build_segment_from_template
    built,      \* [done, raises, out]: what _build_segment_from_template did
    instances,  \* the constructor calls made so far, and what each was given
    CONFIG,     \* EDIFACTGenerator.CONFIG, the class attribute
    clock,      \* seconds elapsed on the wall clock datetime.now() reads
    files,      \* the file system: file name -> lines written
    sender,                         \* self.sender
    receiver,                       \* self.receiver
    message_ref,                    \* self.message_ref
    interchange_control_reference,  \* self.interchange_control_reference
    _custom_validators,             \* self._custom_validators
    _segment_templates,             \* self._segment_templates
    errors,                         \* self.errors
    segment_count,                  \* self.segment_count
    catalogue,  \* the record collection the caller holds
    pc,         \* position in the running call ("idle": none is running)
    entry,      \* the entry point of the running call
    products,   \* argument products
    filename,   \* argument filename
    document_number,  \* local document_number
    valid_products,   \* local valid_products (buffered)
    buffer,     \* local buffer, an io.StringIO (buffered)
    i,          \* loop variable i: index into valid_products (buffered), chunk start (streaming)
    j,          \* loop variable j (streaming): position of the next record
    valid_count,      \* local valid_count (streaming)
    before,     \* the destination as it was when the running call began
    split,      \* the frame of create_prodcat_files
    runs        \* the calls that have returned, in order

\* the arguments and results of the functions applied on their own
escVars == <<data, escaped, args, rendered, record, verdict, verification,
             request, built>>

\* the generator object and the class attribute
genVars == <<CONFIG, sender, receiver, message_ref, interchange_control_reference,
             _custom_validators, _segment_templates, instances>>

\* the locals of a running create_prodcat_file / create_prodcat_file_streaming
localVars == <<products, filename, document_number, valid_products, buffer, i, j,
               valid_count, before, entry>>

vars == <<escVars, genVars, clock, files, errors, segment_count, catalogue, pc,
          localVars, split, runs>>

(***************************************************************************)
(* datetime.now().strftime(...): the clock counts the seconds since        *)
(* 2026-11-06 14:03:00.                                                    *)
(***************************************************************************)
Pad2(n) == IF n < 10 THEN "0" \o NatStr(n) ELSE NatStr(n)

Strftime(format) ==
    CASE format = "%Y%m%d%H%M%S%f" -> "20261106" \o "1403" \o Pad2(clock) \o "000000"
      [] format = "%H%M%S%f" -> "1403" \o Pad2(clock) \o "000000"
      [] format = "%Y%m%d" -> "20261106"
      [] format = "%y%m%d" -> "261106"
      [] format = "%H%M" -> "1403"
      [] format = "PRODCAT-%Y%m%d%H%M%S" -> "PRODCAT-20261106" \o "1403" \o Pad2(clock)

\* _generate_message_reference (prodcat3.py 109-111)
_generate_message_reference == SubSeq(Strftime("%Y%m%d%H%M%S%f"), 1, 14)

\* _generate_interchange_reference (prodcat3.py 113-115)
_generate_interchange_reference == SubSeq(Strftime("%H%M%S%f"), 1, 6)

\* a validate_id that lets every identifier through
AnyIdentifier(id) == [ok |-> TRUE, id |-> sanitize_value(Str(id), TRUE)]

(***************************************************************************)
(* validate_id (prodcat3.py 123-130): ok = FALSE stands for the ValueError.*)
(***************************************************************************)
validate_id(id) ==
    LET clean == sanitize_value(Str(id), TRUE)
    IN  [ok |-> ReMatch(CONFIG.validation.allowed_id_chars, clean), id |-> clean]

(***************************************************************************)
(* validate_date_format (prodcat3.py 132-138).                             *)
(***************************************************************************)
validate_date_format(date_value, format_code) ==
    IF format_code \notin DOMAIN CONFIG.validation.date_formats
    THEN TRUE
    ELSE ReMatch(CONFIG.validation.date_formats[format_code], date_value)

(***************************************************************************)
(* add_validation_rule (prodcat3.py 140-142).  self._custom_validators is  *)
(* a dictionary, kept here in insertion order as a sequence of rules       *)
(* [field, validator, message]; a validator is one of the callables the    *)
(* caller registers.                                                       *)
(***************************************************************************)
Validators == {"short"}

\* validator(value): "short" is lambda v: len(str(v)) <= 10
ApplyValidator(validator, value) ==
    CASE validator = "short" -> Len(PyStr(value)) <= 10

\* self._custom_validators[field] = (validator, message)
DictSet(rules, field, validator, message) ==
    LET rule == [field |-> field, validator |-> validator, message |-> message]
    IN  IF \E k \in 1..Len(rules) : rules[k].field = field
        THEN [k \in 1..Len(rules) |-> IF rules[k].field = field THEN rule ELSE rules[k]]
        ELSE Append(rules, rule)

(***************************************************************************)
(* validate_product (prodcat3.py 145-206).  Validation is what the call    *)
(* does with one record: it returns, having appended reason to             *)
(* self.errors unless reason is "", or it raises.  The checks run in the   *)
(* order of the code and the first failure returns.                        *)
(***************************************************************************)
OptionalFields == <<"supplier_code", "barcode", "internal_ref">>

\* a required-field check that finds nothing missing
NothingMissing(product) == <<>>

MissingFields(product) ==
    SelectSeq(CONFIG.validation.required_product_fields,
              LAMBDA field : ~Truthy(product[field]))

\* line 196: the optional fields at which the loop stops.  re.match raises
\* TypeError for a value that is not a string
FirstBadOptional(product) ==
    SelectSeq(OptionalFields,
              LAMBDA field : /\ Truthy(product[field])
                             /\ \/ product[field].t # "str"
                                \/ ~ReMatch(CONFIG.validation.allowed_id_chars,
                                            product[field].v))

\* lines 201-204: the registered rules the record fails, in dictionary order
FailedRules(product) ==
    SelectSeq(_custom_validators,
              LAMBDA rule : /\ product[rule.field] # None
                            /\ ~ApplyValidator(rule.validator, product[rule.field]))

Outcome(reason) == [raises |-> FALSE, reason |-> reason]

TypeError ==
    [raises |-> TRUE, reason |-> "expected string or bytes-like object, got 'int'"]

Validation(product) ==
    LET price    == ParseFloat(sanitize_value(product.price, FALSE))
        quantity == ParseFloat(sanitize_value(product.quantity, FALSE))
        currency == sanitize_value(product.currency, TRUE)
        unit     == sanitize_value(product.unit, TRUE)
        description == sanitize_value(product.description, FALSE)
    IN  IF MissingFields(product) # <<>>
        THEN Outcome("Product missing required fields: "
                       \o Join(", ", MissingFields(product)))
        ELSE IF ~price.ok
             THEN Outcome("Invalid price value: " \o PyStr(product.price))
        ELSE IF ~price.positive
             THEN Outcome("Price must be positive: " \o PyStr(product.price))
        ELSE IF ~quantity.ok
             THEN Outcome("Invalid quantity value: " \o PyStr(product.quantity))
        ELSE IF ~quantity.positive
             THEN Outcome("Quantity must be positive: " \o PyStr(product.quantity))
        ELSE IF currency \notin CONFIG.validation.valid_currencies
             THEN Outcome("Invalid currency: " \o currency)
        ELSE IF unit \notin CONFIG.validation.valid_units
             THEN Outcome("Invalid unit: " \o unit)
        ELSE IF /\ CONFIG.default_values.syntax_identifier = Str("UNOA")
                /\ ~IsAscii(description)
             THEN Outcome("Description contains non-ASCII characters: " \o description)
        ELSE IF FirstBadOptional(product) # <<>>
             THEN LET field == Head(FirstBadOptional(product))
                  IN  IF product[field].t # "str" THEN TypeError
                      ELSE Outcome("Invalid " \o field \o ": " \o product[field].v)
        ELSE IF FailedRules(product) # <<>>
             THEN Outcome(Head(FailedRules(product)).field \o ": "
                            \o Head(FailedRules(product)).message)
        ELSE Outcome("")

\* the reason the record is rejected with, "" when it is accepted
ValidationFailure(product) == Validation(product).reason

\* a validation that accepts every record
AcceptEveryRecord(product) == TRUE

validate_product(product) == ValidationFailure(product) = ""

\* the records validate_product is called on: up to the first that raises
RECURSIVE Validated(_)
Validated(records) ==
    IF records = <<>> THEN <<>>
    ELSE IF Validation(Head(records)).raises THEN <<>>
    ELSE <<Head(records)>> \o Validated(Tail(records))

\* the exception validate_product raises over a list of records, "" if none
RaisedOver(records) ==
    IF Len(Validated(records)) = Len(records) THEN ""
    ELSE Validation(records[Len(Validated(records)) + 1]).reason

\* the reasons validate_product appends to self.errors over a list of records
RECURSIVE ValidationErrors(_)
ValidationErrors(records) ==
    IF records = <<>> THEN <<>>
    ELSE IF Validation(Head(records)).raises THEN <<>>
    ELSE (IF validate_product(Head(records)) THEN <<>>
          ELSE <<ValidationFailure(Head(records))>>)
         \o ValidationErrors(Tail(records))

(***************************************************************************)
(* _format_segment (prodcat3.py 238-260), the text it returns.  Every      *)
(* action that renders a segment adds one to segment_count (line 255).     *)
(***************************************************************************)
EscapeAll(items) == [k \in 1..Len(items) |-> _escape_data(items[k].v)]

ElementText(element) ==
    IF element.t = "list"
    THEN Join(Delimiters.component,
              EscapeAll(SelectSeq(element.v, LAMBDA c : c.t # "none")))
    ELSE IF element.t # "none"
    THEN _escape_data(PyStr(element))
    ELSE ""

\* a trim that drops every empty position, interior ones too
DropEveryEmpty(segment_parts) ==
    <<Head(segment_parts)>> \o SelectSeq(Tail(segment_parts), LAMBDA part : part # "")

RECURSIVE PopTrailingEmpty(_)
PopTrailingEmpty(segment_parts) ==
    IF Len(segment_parts) > 1 /\ segment_parts[Len(segment_parts)] = ""
    THEN PopTrailingEmpty(SubSeq(segment_parts, 1, Len(segment_parts) - 1))
    ELSE segment_parts

_format_segment(tag, elements) ==
    LET segment_parts ==
            <<tag>> \o [k \in 1..Len(elements) |-> ElementText(elements[k])]
    IN  Join(Delimiters.data, PopTrailingEmpty(segment_parts))
        \o Delimiters.terminator

(***************************************************************************)
(* The segment templates (prodcat3.py 98-107) and                          *)
(* _build_segment_from_template (213-236).                                 *)
(***************************************************************************)
DefaultTemplates ==
    [product_header |->
        <<Str("LIN"), Str("${line_number}"), Str("1"), Str("EN")>>,
     product_id |->
        <<Str("PIA"), Str("${qualifier}"),
          List(<<Str("${product_id}"), Str("${id_type}")>>)>>,
     product_description |->
        <<Str("IMD"), Str("${desc_type}"), None, None, None, Str("${description}")>>,
     product_price |->
        <<Str("PRI"), Str("${price_qualifier}"),
          List(<<Str("${price}"), Str("CT"), Str("${currency}")>>)>>,
     product_quantity |->
        <<Str("QTY"),
          List(<<Str("${qty_qualifier}"), Str("${quantity}"), Str("${unit}")>>)>>,
     product_reference |->
        <<Str("RFF"), List(<<Str("${ref_qualifier}"), Str("${reference}")>>)>>]

IsPlaceholder(element) == element.t = "str" /\ StartsWith(element.v, "${")

\* kwargs.get(element[2:-1], "")
Resolve(element, kwargs) ==
    LET key == SubSeq(element.v, 3, Len(element.v) - 1)
    IN  IF key \in DOMAIN kwargs THEN kwargs[key] ELSE Str("")

ResolveElement(element, kwargs) ==
    IF IsPlaceholder(element) THEN Resolve(element, kwargs)
    ELSE IF element.t = "list"
    THEN List([k \in 1..Len(element.v) |->
                 IF IsPlaceholder(element.v[k]) THEN Resolve(element.v[k], kwargs)
                 ELSE element.v[k]])
    ELSE element

\* lines 215-217: template = self._segment_templates.get(segment_type), and
\* `if not template` raises ValueError: for a kind that is not registered (None)
\* and also for a kind registered with an empty layout ([] is falsy)
UnknownSegmentType(templates, segment_type) ==
    \/ segment_type \notin DOMAIN templates
    \/ templates[segment_type] = <<>>

\* lines 218-236
_build_segment_from_template(templates, segment_type, kwargs) ==
    LET template == templates[segment_type]
        resolved_elements ==
            [k \in 1..Len(template) |-> ResolveElement(template[k], kwargs)]
    IN  _format_segment(StrUpper(segment_type), resolved_elements)


(***************************************************************************)
(* The segment builders (prodcat3.py 269-348 and 668-735).                 *)
(***************************************************************************)
_build_unb_segment ==
    LET datetime_of_preparation == Strftime("%y%m%d") \o ":" \o Strftime("%H%M")
    IN  _format_segment("UNB",
            <<List(<<CONFIG.default_values.syntax_identifier,
                     CONFIG.default_values.syntax_version_number>>),
              List(<<Str(sender), CONFIG.default_values.partner_qualifier>>),
              List(<<Str(receiver), CONFIG.default_values.partner_qualifier>>),
              Str(datetime_of_preparation),
              Str(interchange_control_reference),
              None, None, None, None, None,
              CONFIG.default_values.test_indicator>>)

_build_unh_segment ==
    _format_segment("UNH",
        <<Str(message_ref),
          List(<<CONFIG.default_values.message_type,
                 CONFIG.default_values.message_version,
                 CONFIG.default_values.message_release,
                 CONFIG.default_values.controlling_agency,
                 CONFIG.default_values.association_assigned_code>>),
          None, None, None>>)

_build_bgm_segment(number) ==
    _format_segment("BGM",
        <<Str("220"), Str(sanitize_value(Str(number), FALSE)), Str("9")>>)

\* the segment _build_dtm_segment returns when the date passes its check
_build_dtm_segment(date_type_code, date_value, date_format) ==
    _format_segment("DTM",
        <<List(<<Str(date_type_code), Str(date_value), Str(date_format)>>)>>)

\* the reason _build_dtm_segment appends when the date fails its check
DtmError(date_type_code, date_value, date_format) ==
    "Invalid date format for " \o date_type_code \o ". Value: " \o date_value
    \o ", Expected format: " \o date_format

_build_nad_segment(party_qualifier, party_id, name) ==
    LET elements ==
            <<Str(sanitize_value(Str(party_qualifier), TRUE)),
              List(<<Str(sanitize_value(Str(party_id), FALSE)),
                     None, None, None, Str("9")>>)>>
    IN  _format_segment("NAD",
            IF name # "" THEN Append(elements, Str(sanitize_value(Str(name), FALSE)))
            ELSE elements)

\* a line-item header numbered from 0
NumberedFromZero(line_item_number) ==
    _build_segment_from_template(_segment_templates, "product_header",
        [line_number |-> Str(NatStr(line_item_number - 1))])

_build_lin_segment(line_item_number) ==
    _build_segment_from_template(_segment_templates, "product_header",
        [line_number |-> Str(NatStr(line_item_number))])

_build_pia_segment(product_id, qualifier) ==
    _build_segment_from_template(_segment_templates, "product_id",
        [product_id |-> product_id, qualifier |-> Str(qualifier),
         id_type |-> Str(qualifier)])

_build_imd_segment(description) ==
    _build_segment_from_template(_segment_templates, "product_description",
        [description |-> description,
         desc_type |-> CONFIG.default_values.description_type])

_build_pri_segment(price, currency) ==
    _build_segment_from_template(_segment_templates, "product_price",
        [price |-> price, currency |-> currency,
         price_qualifier |-> CONFIG.default_values.price_qualifier])

_build_qty_segment(quantity, unit) ==
    _build_segment_from_template(_segment_templates, "product_quantity",
        [quantity |-> quantity, unit |-> unit,
         qty_qualifier |-> CONFIG.default_values.quantity_qualifier])

_build_rff_segment(reference_qualifier, reference_number) ==
    _build_segment_from_template(_segment_templates, "product_reference",
        [ref_qualifier |-> Str(reference_qualifier), reference |-> reference_number])

\* a trailer that does not count itself
TrailerWithoutItself(count) ==
    _format_segment("UNT", <<Str(NatStr(count)), Str(message_ref)>>)

\* count is self.segment_count when the trailer is built
_build_unt_segment(count) ==
    _format_segment("UNT", <<Str(NatStr(count + 1)), Str(message_ref)>>)

\* an interchange trailer that carries the message reference
TrailerWithMessageReference(message_count) ==
    _format_segment("UNZ", <<Str(NatStr(message_count)), Str(message_ref)>>)

_build_unz_segment(message_count) ==
    _format_segment("UNZ",
        <<Str(NatStr(message_count)), Str(interchange_control_reference)>>)

(***************************************************************************)
(* A line of output: the rendered segment and the builder that made it.    *)
(***************************************************************************)
Line(kind, text) == [kind |-> kind, text |-> text]

\* a group with the quantity before the price
QuantityBeforePrice(n, product) ==
    <<Line("LIN", _build_lin_segment(n))>>
    \o (IF Truthy(product.supplier_code)
        THEN <<Line("PIA", _build_pia_segment(product.supplier_code, "SA"))>>
        ELSE <<>>)
    \o (IF Truthy(product.barcode)
        THEN <<Line("PIA", _build_pia_segment(product.barcode, "GT"))>>
        ELSE <<>>)
    \o <<Line("IMD", _build_imd_segment(product.description)),
         Line("QTY", _build_qty_segment(Str(PyStr(product.quantity)), product.unit)),
         Line("PRI", _build_pri_segment(Str(PyStr(product.price)), product.currency))>>
    \o (IF Truthy(product.internal_ref)
        THEN <<Line("RFF", _build_rff_segment("AAN", product.internal_ref))>>
        ELSE <<>>)

\* the lines one accepted record contributes, buffered (prodcat3.py 502-517)
BufferedGroup(n, product) ==
    <<Line("LIN", _build_lin_segment(n))>>
    \o (IF Truthy(product.supplier_code)
        THEN <<Line("PIA", _build_pia_segment(product.supplier_code, "SA"))>>
        ELSE <<>>)
    \o (IF Truthy(product.barcode)
        THEN <<Line("PIA", _build_pia_segment(product.barcode, "GT"))>>
        ELSE <<>>)
    \o <<Line("IMD", _build_imd_segment(product.description)),
         Line("PRI", _build_pri_segment(Str(PyStr(product.price)), product.currency)),
         Line("QTY", _build_qty_segment(Str(PyStr(product.quantity)), product.unit))>>
    \o (IF Truthy(product.internal_ref)
        THEN <<Line("RFF", _build_rff_segment("AAN", product.internal_ref))>>
        ELSE <<>>)

\* the lines one accepted record contributes, streaming (prodcat3.py 587-599)
StreamingGroup(n, product) ==
    <<Line("LIN", _build_lin_segment(n))>>
    \o (IF Truthy(product.supplier_code)
        THEN <<Line("PIA", _build_pia_segment(product.supplier_code, "SA"))>>
        ELSE <<>>)
    \o (IF Truthy(product.barcode)
        THEN <<Line("PIA", _build_pia_segment(product.barcode, "GT"))>>
        ELSE <<>>)
    \o <<Line("IMD", _build_imd_segment(product.description)),
         Line("PRI", _build_pri_segment(Str(PyStr(product.price)), product.currency)),
         Line("QTY", _build_qty_segment(Str(PyStr(product.quantity)), product.unit))>>
    \o (IF Truthy(product.internal_ref)
        THEN <<Line("RFF", _build_rff_segment("AAN", product.internal_ref))>>
        ELSE <<>>)

(***************************************************************************)
(* The records of the model: the record of the concrete scenario, the      *)
(* first sample record of main(), with every optional field, and a record  *)
(* that validation rejects for its price of 0.                             *)
(***************************************************************************)
Widget ==
    [description |-> Str("Widget"), quantity |-> Str("10"), unit |-> Str("PCE"),
     price |-> Str("5.00"), currency |-> Str("USD"),
     supplier_code |-> None, barcode |-> None, internal_ref |-> None]

Laptop ==
    [description |-> Str("Premium Laptop 15 inch (16GB RAM/1TB SSD)"),
     quantity |-> Str("50"), unit |-> Str("PCE"),
     price |-> Str("1299.99"), currency |-> Str("USD"),
     supplier_code |-> Str("LAPTOP-001"), barcode |-> Str("1234567890123"),
     internal_ref |-> Str("INT-PROD-L001")]

Free == [Widget EXCEPT !.price = Str("0")]

Records == {Widget, Laptop, Free}

RecordLists == UNION {[1..n -> Records] : n \in 0..MaxProducts}

\* the external configurations a generator is constructed with (config_file)
ConfigFiles ==
    {[limits |-> [chunk_size |-> SmallChunk]],
     [validation |-> [date_formats |-> ("102" :> Date6Pattern)]]}

Configs == {DefaultConfig} \cup {_merge_configs(DefaultConfig, c) : c \in ConfigFiles}

\* the values of the argument config_file: None, or the content of the file
ConfigFileArgs == {None} \cup ConfigFiles

\* lines 74-75 with _load_config (79-88)
_load_config(config, config_file) ==
    IF config_file = None THEN config ELSE _merge_configs(config, config_file)

(***************************************************************************)
(* __init__ (prodcat3.py 59-77).  An instance records one constructor      *)
(* call: what it was given, whether it raised, and the syntax version      *)
(* selected on the generator since ("" when none was).  The generator in   *)
(* use is the one constructed last.                                        *)
(***************************************************************************)
Instance(sender_id, receiver_id, config_file, raised) ==
    [sender_id |-> sender_id, receiver_id |-> receiver_id,
     config_file |-> config_file, raised |-> raised, version |-> ""]

\* the generator in use: the last one whose constructor returned (0: none)
Self ==
    IF \A g \in 1..Len(instances) : instances[g].raised THEN 0
    ELSE CHOOSE g \in 1..Len(instances) :
            /\ ~instances[g].raised
            /\ \A h \in (g + 1)..Len(instances) : instances[h].raised

NoSplit == [active |-> FALSE, max |-> 0, chunk_start |-> 0, n |-> 0, created |-> <<>>]

\* no call is running and none has returned
NoCall ==
    /\ entry = [name |-> "", use_streaming |-> FALSE]
    /\ products = <<>>
    /\ filename = ""
    /\ document_number = ""
    /\ valid_products = <<>>
    /\ buffer = <<>>
    /\ i = 0
    /\ j = 0
    /\ valid_count = 0
    /\ before = [exists |-> FALSE, lines |-> <<>>]
    /\ split = NoSplit
    /\ runs = <<>>

\* the generator EDIFACTGenerator("A.1", "B-2", config_file=...), constructed at clock 0
Constructed(config_files, catalogues) ==
    /\ \E config_file \in config_files :
            /\ CONFIG = _load_config(DefaultConfig, config_file)
            /\ instances = <<Instance("A.1", "B-2", config_file, FALSE)>>
    /\ clock = 0
    /\ files = <<>>
    /\ sender = validate_id("A.1").id
    /\ receiver = validate_id("B-2").id
    /\ message_ref = _generate_message_reference
    /\ interchange_control_reference = _generate_interchange_reference
    /\ errors = <<>>
    /\ segment_count = 0
    /\ _custom_validators = <<>>
    /\ _segment_templates = DefaultTemplates
    /\ catalogue \in catalogues
    /\ pc = "idle"
    /\ NoCall

\* no function is applied on its own
NotEscaping == data = "" /\ escaped = [done |-> FALSE, out |-> ""]

NotFormatting ==
    /\ args = [tag |-> "", elements |-> <<>>]
    /\ rendered = [done |-> FALSE, out |-> ""]

NotValidating ==
    /\ record = None
    /\ verdict = [done |-> FALSE, raises |-> FALSE, accepted |-> FALSE]

NotVerifying ==
    verification = [done |-> FALSE, valid |-> FALSE, errors |-> <<>>,
                    total_segments |-> 0, product_lines |-> 0]

NotBuilding ==
    /\ request = [segment_type |-> "", kwargs |-> <<>>]
    /\ built = [done |-> FALSE, raises |-> FALSE, out |-> ""]

Init ==
    /\ NotEscaping
    /\ NotFormatting
    /\ NotValidating
    /\ NotVerifying
    /\ NotBuilding
    /\ Constructed(ConfigFileArgs, RecordLists)

(***************************************************************************)
(* The constructor as an operation: the class is loaded, and generators    *)
(* are constructed one after the other.  CONFIG is a class attribute: the  *)
(* constructor reads and merges into the one dictionary all instances      *)
(* share.  Lines 63-64 raise before anything else is set.                  *)
(***************************************************************************)
ClassLoaded(catalogues) ==
    /\ CONFIG = DefaultConfig
    /\ instances = <<>>
    /\ clock = 0
    /\ files = <<>>
    /\ sender = ""
    /\ receiver = ""
    /\ message_ref = ""
    /\ interchange_control_reference = ""
    /\ errors = <<>>
    /\ segment_count = 0
    /\ _custom_validators = <<>>
    /\ _segment_templates = <<>>
    /\ catalogue \in catalogues
    /\ pc = "new"
    /\ NoCall

__init__(sender_id, receiver_id, config_file) ==
    /\ pc \in {"new", "idle"}
    /\ Len(instances) < MaxGenerators
    /\ IF ~validate_id(sender_id).ok \/ ~validate_id(receiver_id).ok
       THEN /\ instances' = Append(instances,
                               Instance(sender_id, receiver_id, config_file, TRUE))
            /\ UNCHANGED <<CONFIG, sender, receiver, message_ref,
                           interchange_control_reference, _custom_validators,
                           _segment_templates, errors, segment_count, pc>>
       ELSE /\ instances' = Append(instances,
                               Instance(sender_id, receiver_id, config_file, FALSE))
            /\ sender' = validate_id(sender_id).id
            /\ receiver' = validate_id(receiver_id).id
            /\ message_ref' = _generate_message_reference
            /\ errors' = <<>>
            /\ interchange_control_reference' = _generate_interchange_reference
            /\ segment_count' = 0
            /\ _custom_validators' = <<>>
            /\ _segment_templates' = DefaultTemplates
            /\ CONFIG' = _load_config(CONFIG, config_file)
            /\ pc' = "idle"
    /\ UNCHANGED <<escVars, clock, files, catalogue, localVars, split, runs>>

(***************************************************************************)
(* set_edifact_version (prodcat3.py 374-388), for a supported version: it  *)
(* assigns into CONFIG['default_values'], the dictionary of the class.     *)
(***************************************************************************)
version_configs ==
    [UNOA |-> [syntax_identifier |-> "UNOA", syntax_version |-> "3"],
     UNOB |-> [syntax_identifier |-> "UNOB", syntax_version |-> "4"],
     UNOC |-> [syntax_identifier |-> "UNOC", syntax_version |-> "1"]]

set_edifact_version(version) ==
    /\ pc = "idle"
    /\ Self # 0
    /\ instances[Self].version = ""
    /\ version \in DOMAIN version_configs
    /\ LET config == version_configs[version]
       IN  CONFIG' = [CONFIG EXCEPT
                        !.default_values.syntax_identifier = Str(config.syntax_identifier),
                        !.default_values.syntax_version_number = Str(config.syntax_version)]
    /\ instances' = [instances EXCEPT ![Self].version = version]
    /\ UNCHANGED <<escVars, sender, receiver, message_ref, interchange_control_reference,
                   _custom_validators, _segment_templates, clock, files, errors,
                   segment_count, catalogue, pc, localVars, split, runs>>

(***************************************************************************)
(* verify_edi_file (prodcat3.py 618-666) on the lines of a file: the       *)
(* result it returns.  segments[i] of a list too short raises IndexError,  *)
(* which line 662 catches.                                                 *)
(***************************************************************************)
expected_start == <<"UNB", "UNH", "BGM">>

expected_end == <<"UNT", "UNZ">>

\* line 632
Segments(lines) ==
    SelectSeq([k \in 1..Len(lines) |-> StrStrip(lines[k].text)], LAMBDA t : t # "")

\* lines 636-639, for the positions 0..n-1
RECURSIVE StartErrors(_, _)
StartErrors(segments, n) ==
    IF n = 0 THEN <<>>
    ELSE StartErrors(segments, n - 1)
         \o (IF StartsWith(segments[n], expected_start[n]) THEN <<>>
             ELSE <<"Missing " \o expected_start[n] \o " segment at position "
                    \o NatStr(n - 1)>>)

\* lines 641-644: enumerate(expected_end, 1) pairs 'UNT' with segments[-1]
\* and 'UNZ' with segments[-2]
EndErrors(segments) ==
    (IF StartsWith(segments[Len(segments)], expected_end[1]) THEN <<>>
     ELSE <<"Missing " \o expected_end[1] \o " segment at end">>)
    \o (IF StartsWith(segments[Len(segments) - 1], expected_end[2]) THEN <<>>
        ELSE <<"Missing " \o expected_end[2] \o " segment at end">>)

verify_edi_file(lines) ==
    LET segments == Segments(lines)
        problems == IF Len(segments) < 3
                    THEN Append(StartErrors(segments, Len(segments)),
                                "Verification failed: list index out of range")
                    ELSE StartErrors(segments, 3) \o EndErrors(segments)
    IN  [valid |-> problems = <<>>,
         errors |-> problems,
         total_segments |-> IF Len(segments) < 3 THEN 0 ELSE Len(segments),
         product_lines |-> IF Len(segments) < 3 THEN 0
                           ELSE Len(SelectSeq(segments, LAMBDA t : StartsWith(t, "LIN")))]

(***************************************************************************)
(* Returning from a generation call.  A run records what the call was      *)
(* given, what it returned and what it left behind.                        *)
(***************************************************************************)
Dest(fs, name) ==
    IF name \in DOMAIN fs THEN [exists |-> TRUE, lines |-> fs[name]]
    ELSE [exists |-> FALSE, lines |-> <<>>]

Run(e, mode, fname, prods, bef, ok, errs, fs, count) ==
    [entry |-> e.name, use_streaming |-> e.use_streaming, mode |-> mode,
     filename |-> fname, products |-> prods, clock |-> clock,
     ok |-> ok, errors |-> errs, segment_count |-> count,
     before |-> bef, after |-> Dest(fs, fname),
     generator |-> Self, options |-> instances[Self], raised |-> FALSE]

\* the same for a call that an exception leaves: it returns no value
Raise(run) == [run EXCEPT !.raised = TRUE]

\* back in the caller: create_prodcat_files (prodcat3.py 411-414) or the user.
\* create_prodcat_files catches nothing: an exception leaves it too
Returns(run) ==
    /\ runs' = Append(runs, run)
    /\ pc' = IF ~split.active THEN "idle" ELSE IF run.raised THEN "done" ELSE "split"
    /\ split' = IF ~split.active THEN split
                ELSE IF run.raised THEN [split EXCEPT !.active = FALSE]
                ELSE [split EXCEPT !.created = IF run.ok THEN Append(@, run.filename) ELSE @,
                                   !.chunk_start = @ + split.max,
                                   !.n = @ + 1]

Min(a, b) == IF a <= b THEN a ELSE b

(***************************************************************************)
(* create_prodcat_file (prodcat3.py 418-544), called with force = True,    *)
(* and without document_number, sender_name or receiver_name.              *)
(***************************************************************************)
\* lines 443-460: reset, the empty check, the dispatch
CreateProdcatFileBody(prods, fname, use_streaming) ==
    LET e   == [name |-> "create_prodcat_file", use_streaming |-> use_streaming]
        bef == Dest(files, fname)
    IN  /\ products' = prods
        /\ filename' = fname
        /\ entry' = e
        /\ before' = bef
        /\ segment_count' = 0
        /\ IF prods = <<>>
           THEN /\ errors' = <<"No products provided for PRODCAT generation.">>
                /\ Returns(Run(e, "none", fname, prods, bef, FALSE,
                               <<"No products provided for PRODCAT generation.">>,
                               files, 0))
           ELSE /\ errors' = <<>>
                /\ pc' = IF use_streaming \/ Len(prods) > CONFIG.limits.chunk_size
                         THEN "s_open" ELSE "b_validate"
                /\ UNCHANGED <<runs, split>>
        /\ UNCHANGED <<escVars, genVars, clock, files, catalogue, document_number,
                       valid_products, buffer, i, j, valid_count>>

create_prodcat_file(use_streaming) ==
    /\ pc = "idle"
    /\ Len(runs) < MaxCalls
    /\ CreateProdcatFileBody(catalogue, "prodcat.edi", use_streaming)

\* lines 462-472.  The list comprehension of line 462 is outside the try
\* block: an exception of validate_product leaves create_prodcat_file
B_Validate ==
    /\ pc = "b_validate"
    /\ LET valid == SelectSeq(Validated(products), validate_product)
           errs  == errors \o ValidationErrors(products)
       IN  IF RaisedOver(products) # ""
           THEN /\ errors' = errs
                /\ Returns(Raise(Run(entry, "buffered", filename, products, before,
                                      FALSE, errs, files, segment_count)))
                /\ UNCHANGED <<valid_products, document_number>>
           ELSE /\ valid_products' = valid
                /\ IF valid = <<>>
                   THEN /\ errors' = Append(errs, "No valid products to process")
                        /\ Returns(Run(entry, "buffered", filename, products, before,
                                       FALSE,
                                       Append(errs, "No valid products to process"),
                                       files, segment_count))
                        /\ UNCHANGED document_number
                   ELSE /\ errors' = errs
                        /\ document_number' = Strftime("PRODCAT-%Y%m%d%H%M%S")
                        /\ pc' = "b_header"
                        /\ UNCHANGED <<runs, split>>
    /\ UNCHANGED <<escVars, genVars, clock, files, segment_count, catalogue, products,
                   filename, buffer, i, j, valid_count, before, entry>>

\* an assembly that opens the destination for writing before it is done
FrameThatTruncates ==
    /\ files' = (filename :> <<>>) @@ files
    /\ UNCHANGED <<escVars, genVars, clock, catalogue, products, filename,
                   document_number, valid_products, j, valid_count, before, entry,
                   split, runs>>

\* what the steps of the buffered assembly leave alone
BufferedFrame ==
    UNCHANGED <<escVars, genVars, clock, files, catalogue, products, filename,
                document_number, valid_products, j, valid_count, before, entry,
                split, runs>>

\* lines 480-488 and 567-571: _build_dtm_segment (317-333) gives nothing for a
\* date that fails validate_date_format, and the caller takes one off the count
DocumentDate ==
    LET date_value == Strftime("%Y%m%d")
    IN  IF validate_date_format(date_value, "102")
        THEN [lines |-> <<Line("DTM", _build_dtm_segment("137", date_value, "102"))>>,
              errors |-> <<>>,
              counted |-> 1]
        ELSE [lines |-> <<>>,
              errors |-> <<DtmError("137", date_value, "102")>>,
              counted |-> 0 - 1]

\* the header with the supplier before the buyer
SupplierBeforeBuyer(number) ==
    <<Line("UNB", _build_unb_segment),
      Line("UNH", _build_unh_segment),
      Line("BGM", _build_bgm_segment(number))>>
    \o DocumentDate.lines
    \o <<Line("NAD", _build_nad_segment("SU", sender, "Supplier Company Name")),
         Line("NAD", _build_nad_segment("BY", receiver, "Buyer Company Name"))>>

\* lines 475-499 and 563-574: the segments before the first line item
HeaderLines(number) ==
    <<Line("UNB", _build_unb_segment),
      Line("UNH", _build_unh_segment),
      Line("BGM", _build_bgm_segment(number))>>
    \o DocumentDate.lines
    \o <<Line("NAD", _build_nad_segment("BY", receiver, "Buyer Company Name")),
         Line("NAD", _build_nad_segment("SU", sender, "Supplier Company Name"))>>

\* lines 475-501
B_Header ==
    /\ pc = "b_header"
    /\ buffer' = HeaderLines(document_number)
    /\ errors' = errors \o DocumentDate.errors
    /\ segment_count' = segment_count + 5 + DocumentDate.counted
    /\ i' = 1
    /\ pc' = "b_products"
    /\ BufferedFrame

\* lines 501-517, one iteration
B_Product ==
    /\ pc = "b_products"
    /\ i <= Len(valid_products)
    /\ LET group == BufferedGroup(i, valid_products[i])
       IN  /\ buffer' = buffer \o group
           /\ segment_count' = segment_count + Len(group)
    /\ i' = i + 1
    /\ UNCHANGED <<errors, pc>>
    /\ BufferedFrame

\* lines 519-520, with _build_unt_segment (719-726) and _build_unz_segment (728-735)
TrailerLines(count) ==
    <<Line("UNT", _build_unt_segment(count)), Line("UNZ", _build_unz_segment(1))>>

B_Trailer ==
    /\ pc = "b_products"
    /\ i > Len(valid_products)
    /\ buffer' = buffer \o TrailerLines(segment_count)
    /\ segment_count' = segment_count + 2
    /\ pc' = "b_write"
    /\ UNCHANGED <<errors, i>>
    /\ BufferedFrame

\* lines 522-535: the file is written once, whole, verify_edi_file reads it
\* back (line 531; a failed verification is only logged), and the call
\* returns True
B_Write ==
    /\ pc = "b_write"
    /\ files' = (filename :> buffer) @@ files
    /\ verification' = [done |-> TRUE] @@ verify_edi_file(buffer)
    /\ Returns(Run(entry, "buffered", filename, products, before, TRUE, errors,
                   (filename :> buffer) @@ files, segment_count))
    /\ UNCHANGED <<data, escaped, args, rendered, record, verdict, request, built,
                   genVars, clock, errors, segment_count, catalogue, localVars>>

(***************************************************************************)
(* create_prodcat_file_streaming (prodcat3.py 546-616).                    *)
(***************************************************************************)
\* called directly: nothing is reset
create_prodcat_file_streaming ==
    /\ pc = "idle"
    /\ Len(runs) < MaxCalls
    /\ products' = catalogue
    /\ filename' = "prodcat.edi"
    /\ entry' = [name |-> "create_prodcat_file_streaming", use_streaming |-> TRUE]
    /\ before' = Dest(files, "prodcat.edi")
    /\ pc' = "s_open"
    /\ UNCHANGED <<escVars, genVars, clock, files, errors, segment_count, catalogue,
                   document_number, valid_products, buffer, i, j, valid_count,
                   split, runs>>

\* what the steps of the streaming assembly leave alone
StreamingFrame ==
    UNCHANGED <<escVars, genVars, clock, catalogue, products, filename,
                valid_products, buffer, before, entry>>

WriteLines(lines) == [files EXCEPT ![filename] = @ \o lines]

\* lines 557-561: open(filename, 'w') creates or truncates the file
S_Open ==
    /\ pc = "s_open"
    /\ document_number' = Strftime("PRODCAT-%Y%m%d%H%M%S")
    /\ files' = (filename :> <<>>) @@ files
    /\ pc' = "s_header"
    /\ UNCHANGED <<errors, segment_count, i, j, valid_count, split, runs>>
    /\ StreamingFrame

\* lines 563-580: the header segments are written, then the chunk loop begins
S_Header ==
    /\ pc = "s_header"
    /\ files' = WriteLines(HeaderLines(document_number))
    /\ errors' = errors \o DocumentDate.errors
    /\ segment_count' = segment_count + 5 + DocumentDate.counted
    /\ valid_count' = 0
    /\ i' = 0
    /\ j' = 1
    /\ pc' = "s_products"
    /\ UNCHANGED <<document_number, split, runs>>
    /\ StreamingFrame

\* lines 582-599, one iteration of the inner loop.  An exception of
\* validate_product is caught at line 613: the call returns False
S_Product ==
    /\ pc = "s_products"
    /\ i < Len(products)
    /\ j <= Min(i + CONFIG.limits.chunk_size, Len(products))
    /\ IF Validation(products[j]).raises
       THEN LET errs == Append(errors, "Streaming generation failed: "
                                       \o Validation(products[j]).reason)
            IN  /\ errors' = errs
                /\ Returns(Run(entry, "streaming", filename, products, before, FALSE,
                               errs, files, segment_count))
                /\ UNCHANGED <<valid_count, files, segment_count, j>>
       ELSE /\ IF ~validate_product(products[j])
               THEN /\ errors' = Append(errors, ValidationFailure(products[j]))
                    /\ UNCHANGED <<valid_count, files, segment_count>>
               ELSE LET group == StreamingGroup(valid_count + 1, products[j])
                    IN  /\ valid_count' = valid_count + 1
                        /\ files' = WriteLines(group)
                        /\ segment_count' = segment_count + Len(group)
                        /\ UNCHANGED errors
            /\ j' = j + 1
            /\ UNCHANGED <<pc, split, runs>>
    /\ UNCHANGED <<document_number, i>>
    /\ StreamingFrame

\* lines 580-581 and 601-604: the chunk is done (and flushed), the next begins
S_ChunkEnd ==
    /\ pc = "s_products"
    /\ i < Len(products)
    /\ j > Min(i + CONFIG.limits.chunk_size, Len(products))
    /\ i' = i + CONFIG.limits.chunk_size
    /\ j' = i + CONFIG.limits.chunk_size + 1
    /\ UNCHANGED <<pc, files, errors, segment_count, document_number, valid_count,
                   split, runs>>
    /\ StreamingFrame

\* lines 607-611: the trailers are written and the call returns True
S_Trailer ==
    /\ pc = "s_products"
    /\ i >= Len(products)
    /\ files' = WriteLines(TrailerLines(segment_count))
    /\ segment_count' = segment_count + 2
    /\ Returns(Run(entry, "streaming", filename, products, before, TRUE, errors,
                   WriteLines(TrailerLines(segment_count)), segment_count + 2))
    /\ UNCHANGED <<errors, document_number, i, j, valid_count>>
    /\ StreamingFrame

(***************************************************************************)
(* create_prodcat_files (prodcat3.py 390-416).                             *)
(***************************************************************************)
SplitSizes == {1, 2}

\* f"{n:03d}"
Pad3(n) == IF n < 10 THEN "00" \o NatStr(n) ELSE IF n < 100 THEN "0" \o NatStr(n) ELSE NatStr(n)

\* lines 397-403
create_prodcat_files(max_products_per_file) ==
    /\ pc = "idle"
    /\ runs = <<>>
    /\ ~split.active
    /\ split' = [active |-> TRUE, max |-> max_products_per_file, chunk_start |-> 0,
                 n |-> 0, created |-> <<>>]
    /\ pc' = "split"
    /\ UNCHANGED <<escVars, genVars, clock, files, errors, segment_count, catalogue,
                   localVars, runs>>

\* lines 405-411: the next chunk is handed to create_prodcat_file
SplitNext ==
    /\ pc = "split"
    /\ split.chunk_start < Len(catalogue)
    /\ CreateProdcatFileBody(
            SubSeq(catalogue, split.chunk_start + 1,
                   Min(split.chunk_start + split.max, Len(catalogue))),
            "prodcat_" \o Pad3(split.n + 1) \o ".edi",
            FALSE)

\* line 416: return created_files
SplitReturn ==
    /\ pc = "split"
    /\ split.chunk_start >= Len(catalogue)
    /\ split' = [split EXCEPT !.active = FALSE]
    /\ pc' = "done"
    /\ UNCHANGED <<escVars, genVars, clock, files, errors, segment_count, catalogue,
                   localVars, runs>>

(***************************************************************************)
(* The clock advances between calls.                                       *)
(***************************************************************************)
Tick ==
    /\ pc \in {"idle", "split"}
    /\ clock < MaxClock
    /\ clock' = clock + 1
    /\ UNCHANGED <<escVars, genVars, files, errors, segment_count, catalogue, pc,
                   localVars, split, runs>>

Buffered ==
    \/ B_Validate \/ B_Header \/ B_Product \/ B_Trailer \/ B_Write

Streaming ==
    \/ S_Open \/ S_Header \/ S_Product \/ S_ChunkEnd \/ S_Trailer

\* calls of create_prodcat_file on one generator
Next ==
    \/ \E use_streaming \in BOOLEAN : create_prodcat_file(use_streaming)
    \/ Buffered
    \/ Streaming
    \/ Tick

Spec == Init /\ [][Next]_vars

\* calls of create_prodcat_file_streaming itself on one generator
NextDirect ==
    \/ create_prodcat_file_streaming
    \/ Streaming
    \/ Tick

SpecDirect == Init /\ [][NextDirect]_vars

\* one call of create_prodcat_files

NextSplit ==
    \/ \E max_products_per_file \in SplitSizes :
            create_prodcat_files(max_products_per_file)
    \/ SplitNext
    \/ SplitReturn
    \/ Buffered
    \/ Streaming
    \/ Tick

SpecSplit == Init /\ [][NextSplit]_vars

(***************************************************************************)
(* _format_segment on its own: a party segment of up to MaxElements        *)
(* elements, each a scalar, an empty scalar, an absent value, the          *)
(* composite of _build_nad_segment or a composite of absent values.        *)
(***************************************************************************)
ElementInputs ==
    {Str("A"), Str("B"), Str(""), None,
     List(<<Str("B-2"), None, None, None, Str("9")>>),
     List(<<None, None>>)}

FormatInputs ==
    {[tag |-> "NAD", elements |-> e] :
        e \in UNION {[1..n -> ElementInputs] : n \in 0..MaxElements}}

InitFormat ==
    /\ NotEscaping
    /\ args \in FormatInputs
    /\ rendered = [done |-> FALSE, out |-> ""]
    /\ NotValidating
    /\ NotVerifying
    /\ NotBuilding
    /\ Constructed({None}, {<<>>})

\* self._format_segment(tag, elements); line 255 counts the segment
FormatSegment ==
    /\ pc = "idle"
    /\ args.tag # ""
    /\ ~rendered.done
    /\ rendered' = [done |-> TRUE, out |-> _format_segment(args.tag, args.elements)]
    /\ segment_count' = segment_count + 1
    /\ UNCHANGED <<data, escaped, args, record, verdict, verification, request, built,
                   genVars, clock,
                   files, errors, catalogue, pc, localVars, split, runs>>

NextFormat == FormatSegment

SpecFormat == InitFormat /\ [][NextFormat]_vars

(***************************************************************************)
(* verify_edi_file on its own: the file holds up to MaxSegments segments,  *)
(* each with one of six tags.                                              *)
(***************************************************************************)
VerifyTags == {"UNB", "UNH", "BGM", "LIN", "UNT", "UNZ"}

VerifyInputs ==
    UNION {[1..n -> {Line("", tag \o "+1'") : tag \in VerifyTags}] : n \in 0..MaxSegments}

InitVerify ==
    /\ NotEscaping
    /\ NotFormatting
    /\ NotValidating
    /\ NotVerifying
    /\ NotBuilding
    /\ CONFIG = DefaultConfig
    /\ instances = <<Instance("A.1", "B-2", None, FALSE)>>
    /\ clock = 0
    /\ \E content \in VerifyInputs : files = ("prodcat.edi" :> content)
    /\ sender = validate_id("A.1").id
    /\ receiver = validate_id("B-2").id
    /\ message_ref = _generate_message_reference
    /\ interchange_control_reference = _generate_interchange_reference
    /\ errors = <<>>
    /\ segment_count = 0
    /\ _custom_validators = <<>>
    /\ _segment_templates = DefaultTemplates
    /\ catalogue = <<>>
    /\ pc = "idle"
    /\ NoCall

\* verify_edi_file("prodcat.edi"), called by the user of the generator
VerifyEdiFile ==
    /\ pc = "idle"
    /\ ~verification.done
    /\ "prodcat.edi" \in DOMAIN files
    /\ verification' = [done |-> TRUE] @@ verify_edi_file(files["prodcat.edi"])
    /\ UNCHANGED <<data, escaped, args, rendered, record, verdict, request, built,
                   genVars, clock,
                   files, errors, segment_count, catalogue, pc, localVars, split, runs>>

NextVerify == VerifyEdiFile

SpecVerify == InitVerify /\ [][NextVerify]_vars

(***************************************************************************)
(* Generation from records that hold numbers: the barcode of Scanned is a  *)
(* number, as a decoded JSON document gives it.                            *)
(***************************************************************************)
Scanned == [Widget EXCEPT !.barcode = Num(12345678)]

NumericLists == UNION {[1..n -> {Widget, Scanned}] : n \in 0..MaxProducts}

InitNumeric ==
    /\ NotEscaping
    /\ NotFormatting
    /\ NotValidating
    /\ NotVerifying
    /\ NotBuilding
    /\ Constructed(ConfigFileArgs, NumericLists)

SpecNumeric == InitNumeric /\ [][Next]_vars

(***************************************************************************)
(* Construction with identifiers of every sort, then generation.           *)
(***************************************************************************)
Long35 == "ABCDEFGHIJKLMNOPQRSTUVWXYZ012345678"

Long36 == "ABCDEFGHIJKLMNOPQRSTUVWXYZ0123456789"

\* the identifiers the constructor is called with: sender_id, receiver_id
Identifiers ==
    {<<" a.1 ", Long35>>, <<"bad id!", "B-2">>, <<"A.1", "">>, <<Long36, "b-2 ">>}

InitConstruct ==
    /\ NotEscaping
    /\ NotFormatting
    /\ NotValidating
    /\ NotVerifying
    /\ NotBuilding
    /\ ClassLoaded({<<Widget>>})

NextConstruct ==
    \/ \E ids \in Identifiers : __init__(ids[1], ids[2], None)
    \/ \E use_streaming \in BOOLEAN : create_prodcat_file(use_streaming)
    \/ Buffered
    \/ Streaming

SpecConstruct == InitConstruct /\ [][NextConstruct]_vars

(***************************************************************************)
(* Generation from records that supply the currency and the unit in lower  *)
(* case and with surrounding spaces.                                       *)
(***************************************************************************)
LowerCase == [Widget EXCEPT !.currency = Str(" usd "), !.unit = Str("pce")]

LowerCaseLists == UNION {[1..n -> {Widget, LowerCase}] : n \in 0..MaxProducts}

InitLowerCase ==
    /\ NotEscaping
    /\ NotFormatting
    /\ NotValidating
    /\ NotVerifying
    /\ NotBuilding
    /\ Constructed(ConfigFileArgs, LowerCaseLists)

SpecLowerCase == InitLowerCase /\ [][Next]_vars

(***************************************************************************)
(* Several generators in one process: each is constructed with the same    *)
(* identifiers and its own config_file argument, may have a syntax version *)
(* selected on it, and generates from the one-record catalogue.            *)
(***************************************************************************)
InitShared ==
    /\ NotEscaping
    /\ NotFormatting
    /\ NotValidating
    /\ NotVerifying
    /\ NotBuilding
    /\ ClassLoaded({<<Widget>>})

SharedVersions == {"UNOB"}

NextShared ==
    \/ \E config_file \in ConfigFileArgs : __init__("A.1", "B-2", config_file)
    \/ \E version \in SharedVersions : set_edifact_version(version)
    \/ \E use_streaming \in BOOLEAN : create_prodcat_file(use_streaming)
    \/ Buffered
    \/ Streaming

SpecShared == InitShared /\ [][NextShared]_vars

(***************************************************************************)
(* The template registry on its own: layouts are registered on a           *)
(* generator, under a new kind or over a built-in one, and one segment is  *)
(* built from a kind and a set of params.                                  *)
(***************************************************************************)
Layouts ==
    {<<>>,
     <<Str("${text}"), List(<<Str("${amount}"), Str("CT"), Str("${cur}")>>)>>,
     <<None, Str("${text}")>>}

RegisteredKinds == {"note", "product_header"}

RequestedKinds == {"note", "product_header", "product_price", "never"}

Params ==
    {[key \in {} |-> Str("")],
     [text |-> Str("A")],
     [text |-> Str("A"), cur |-> Str("USD")]}

InitTemplate ==
    /\ NotEscaping
    /\ NotFormatting
    /\ NotValidating
    /\ NotVerifying
    /\ request \in [segment_type : RequestedKinds, kwargs : Params]
    /\ built = [done |-> FALSE, raises |-> FALSE, out |-> ""]
    /\ Constructed({None}, {<<>>})

\* register_segment_template (prodcat3.py 208-211)
register_segment_template(segment_type, template) ==
    /\ pc = "idle"
    /\ ~built.done
    /\ _segment_templates' = (segment_type :> template) @@ _segment_templates
    /\ UNCHANGED <<escVars, CONFIG, sender, receiver, message_ref,
                   interchange_control_reference, _custom_validators, instances,
                   clock, files, errors, segment_count, catalogue, pc, localVars,
                   split, runs>>

\* self._build_segment_from_template(segment_type, **kwargs); _format_segment
\* counts the segment (line 255) when it is reached
BuildSegmentFromTemplate ==
    /\ pc = "idle"
    /\ request.segment_type # ""
    /\ ~built.done
    /\ IF UnknownSegmentType(_segment_templates, request.segment_type)
       THEN /\ built' = [done |-> TRUE, raises |-> TRUE,
                         out |-> "Unknown segment type: " \o request.segment_type]
            /\ UNCHANGED segment_count
       ELSE /\ built' = [done |-> TRUE, raises |-> FALSE,
                         out |-> _build_segment_from_template(_segment_templates,
                                     request.segment_type, request.kwargs)]
            /\ segment_count' = segment_count + 1
    /\ UNCHANGED <<data, escaped, args, rendered, record, verdict, verification,
                   request, genVars, clock, files, errors, catalogue, pc, localVars,
                   split, runs>>

NextTemplate ==
    \/ \E segment_type \in RegisteredKinds, template \in Layouts :
            register_segment_template(segment_type, template)
    \/ BuildSegmentFromTemplate

SpecTemplate == InitTemplate /\ [][NextTemplate]_vars

(***************************************************************************)
(* validate_product on its own: one record, built from the values below,   *)
(* is validated by a generator on which the caller may have registered     *)
(* rules.                                                                  *)
(***************************************************************************)
RecordInputs ==
    [description : {Str("Widget"), Str("Widgét"), Laptop.description, None},
     price : {Str("5.00"), Str("0"), Str("abc"), Num(5), Num(0)},
     quantity : {Str("10"), Str("-1")},
     currency : {Str("USD"), Str(" usd "), Str("XXX")},
     unit : {Str("PCE"), Str("BOX")},
     supplier_code : {None, Str("bad id!")},
     barcode : {None, Str("1234567890123"), Num(12345678)},
     internal_ref : {None}]

RuleFields == {"description", "barcode"}

InitValidate ==
    /\ NotEscaping
    /\ NotFormatting
    /\ record \in RecordInputs
    /\ verdict = [done |-> FALSE, raises |-> FALSE, accepted |-> FALSE]
    /\ NotVerifying
    /\ NotBuilding
    /\ Constructed({None}, {<<>>})

\* add_validation_rule (prodcat3.py 140-142)
add_validation_rule(field, validator, message) ==
    /\ pc = "idle"
    /\ ~verdict.done
    /\ Len(_custom_validators) < MaxRules
    /\ _custom_validators' = DictSet(_custom_validators, field, validator, message)
    /\ UNCHANGED <<escVars, CONFIG, sender, receiver, message_ref,
                   interchange_control_reference, _segment_templates, instances,
                   clock, files, errors,
                   segment_count, catalogue, pc, localVars, split, runs>>

\* validate_product(record), called by the user of the generator
ValidateProduct ==
    /\ pc = "idle"
    /\ record # None
    /\ ~verdict.done
    /\ LET result == Validation(record)
       IN  /\ verdict' = [done |-> TRUE, raises |-> result.raises,
                          accepted |-> ~result.raises /\ result.reason = ""]
           /\ errors' = IF result.raises \/ result.reason = "" THEN errors
                        ELSE Append(errors, result.reason)
    /\ UNCHANGED <<data, escaped, args, rendered, record, verification, request, built,
                   genVars, clock,
                   files, segment_count, catalogue, pc, localVars, split, runs>>

NextValidate ==
    \/ \E field \in RuleFields, validator \in Validators :
            add_validation_rule(field, validator, "too long")
    \/ ValidateProduct

SpecValidate == InitValidate /\ [][NextValidate]_vars

(***************************************************************************)
(* The escaper on its own: every string of at most MaxLen characters over  *)
(* five control characters and one ordinary run.                           *)
(***************************************************************************)
EscapeAlphabet == ControlChars \cup {"a"}

RECURSIVE StringsUpTo(_)
StringsUpTo(n) ==
    IF n = 0 THEN {""}
    ELSE LET shorter == StringsUpTo(n - 1)
         IN  shorter \cup {s \o c : s \in shorter, c \in EscapeAlphabet}

EscapeInputs == StringsUpTo(MaxLen)

InitEscape ==
    /\ data \in EscapeInputs
    /\ escaped = [done |-> FALSE, out |-> ""]
    /\ NotFormatting
    /\ NotValidating
    /\ NotVerifying
    /\ NotBuilding
    /\ Constructed({None}, {<<>>})

EscapeData ==
    /\ ~escaped.done
    /\ escaped' = [done |-> TRUE, out |-> _escape_data(data)]
    /\ UNCHANGED <<data, args, rendered, record, verdict, verification, request, built,
                   genVars, clock, files, errors, segment_count, catalogue, pc,
                   localVars, split, runs>>

NextEscape == EscapeData

SpecEscape == InitEscape /\ [][NextEscape]_vars

(***************************************************************************)
(* C1: _escape_data inserts exactly one release character before each      *)
(* control character of the original string and changes nothing else: the  *)
(* result is the single-pass escaping, of length len(s) + the number of    *)
(* control characters in s.                                                *)
(***************************************************************************)
C1_EscapeOncePerControl ==
    escaped.done =>
        /\ escaped.out = SinglePassEscape(data)
        /\ Len(escaped.out) = Len(data) + NumControl(data)

(***************************************************************************)
(* C2: unescape(_escape_data(s)) = s for every string s.                    *)
(***************************************************************************)
C2_EscapeRoundTrip ==
    escaped.done => unescape(escaped.out) = data

(***************************************************************************)
(* Reading a written file back: the elements of a rendered segment, the    *)
(* segments of one kind, and the references the envelope carries.          *)
(***************************************************************************)
RECURSIVE Split(_, _)
Split(s, sep) ==
    IF ~Contains(s, sep) THEN <<s>>
    ELSE LET k == CHOOSE n \in 1..Len(s) :
                    /\ CharAt(s, n) = sep
                    /\ \A m \in 1..(n - 1) : CharAt(s, m) # sep
         IN  <<SubSeq(s, 1, k - 1)>> \o Split(SubSeq(s, k + 1, Len(s)), sep)

\* the tag and the data elements of a segment, its terminator dropped
Fields(text) == Split(SubSeq(text, 1, Len(text) - 1), Delimiters.data)

Kinds(lines) == [k \in 1..Len(lines) |-> lines[k].kind]

OfKind(lines, kinds) == SelectSeq(lines, LAMBDA l : l.kind \in kinds)

First(lines, kind) ==
    CHOOSE k \in 1..Len(lines) :
        /\ lines[k].kind = kind
        /\ \A m \in 1..(k - 1) : lines[m].kind # kind

GroupKinds == {"LIN", "PIA", "IMD", "PRI", "QTY", "RFF"}

\* the count the message trailer declares
DeclaredCount(lines) == Fields(OfKind(lines, {"UNT"})[1].text)[2]

\* the message count the interchange trailer declares
DeclaredMessages(lines) == Fields(OfKind(lines, {"UNZ"})[1].text)[2]

\* the message reference of the message header
MessageReferenceOf(lines) == Fields(OfKind(lines, {"UNH"})[1].text)[2]

\* the interchange control reference, the last element of the interchange header
ControlReferenceOf(lines) ==
    LET unb == Fields(OfKind(lines, {"UNB"})[1].text)
    IN  unb[Len(unb)]

Accepted(records) == SelectSeq(records, LAMBDA p : ValidationFailure(p) = "")

Rejected(records) == SelectSeq(records, LAMBDA p : ValidationFailure(p) # "")

\* one for each of supplier_code, barcode, internal_ref that is present
Optionals(product) ==
    Cardinality({f \in {"supplier_code", "barcode", "internal_ref"} : Truthy(product[f])})

RECURSIVE GroupSizes(_)
GroupSizes(records) ==
    IF records = <<>> THEN 0
    ELSE 4 + Optionals(Head(records)) + GroupSizes(Tail(records))

\* the runs of create_prodcat_file, in either mode
Calls == {k \in 1..Len(runs) : runs[k].entry = "create_prodcat_file"}

(***************************************************************************)
(* The call of create_prodcat_file that has just returned.  runs only      *)
(* grows, and every run is the latest one in the state its return leads    *)
(* to: what holds of the latest run in every state between calls holds of  *)
(* every run.                                                              *)
(***************************************************************************)
Returned ==
    IF pc \in {"idle", "split", "done"} THEN Calls \cap {Len(runs)} ELSE {}

\* the same, when it wrote a message with line items
Written == {k \in Returned : runs[k].ok /\ Accepted(runs[k].products) # <<>>}

(***************************************************************************)
(* C3: in every message written by create_prodcat_file, the count declared *)
(* in the message trailer (UNT) equals the number of segments from the     *)
(* message header (UNH) to the message trailer inclusive: the interchange  *)
(* header (UNB) and the interchange trailer (UNZ) are not counted.         *)
(***************************************************************************)
C3_TrailerCountsMessageSegments ==
    \A k \in Written :
        LET lines == runs[k].after.lines
        IN  DeclaredCount(lines)
                = NatStr(First(lines, "UNT") - First(lines, "UNH") + 1)

(***************************************************************************)
(* C4: for N accepted records, the message-trailer count written by        *)
(* create_prodcat_file equals the number of segments emitted before the    *)
(* first line-item group, plus the sum over the accepted records of 4 +    *)
(* one for each of supplier_code, barcode, internal_ref present, plus 1.   *)
(***************************************************************************)
C4_TrailerCountFormula ==
    \A k \in Written :
        LET lines == runs[k].after.lines
        IN  DeclaredCount(lines)
                = NatStr((First(lines, "LIN") - 1)
                         + GroupSizes(Accepted(runs[k].products)) + 1)

(***************************************************************************)
(* C5: with sender 'A.1', receiver 'B-2' and the single record Widget      *)
(* (quantity '10', unit 'PCE', price '5.00', currency 'USD'), and the      *)
(* date formats of the default configuration, create_prodcat_file writes   *)
(* exactly 12 segments: interchange header, message header,                *)
(* begin-of-message, date, two party segments, line item, description,     *)
(* price, quantity, message trailer, interchange trailer; the message      *)
(* trailer declares 11 and the interchange trailer declares 1 message.     *)
(***************************************************************************)
WidgetScenario(k) ==
    /\ runs[k].entry = "create_prodcat_file"
    /\ sender = "A.1"
    /\ receiver = "B-2"
    /\ runs[k].products = <<Widget>>
    /\ CONFIG.validation.date_formats = DefaultConfig.validation.date_formats

C5_WidgetScenario ==
    \A k \in Returned :
        WidgetScenario(k) =>
            LET lines == runs[k].after.lines
            IN  /\ runs[k].ok
                /\ Kinds(lines) = <<"UNB", "UNH", "BGM", "DTM", "NAD", "NAD",
                                    "LIN", "IMD", "PRI", "QTY", "UNT", "UNZ">>
                /\ DeclaredCount(lines) = "11"
                /\ DeclaredMessages(lines) = "1"

C5_Witness ==
    \E k \in 1..Len(runs) :
        /\ WidgetScenario(k)
        /\ runs[k].ok
        /\ Len(runs[k].after.lines) = 12

(***************************************************************************)
(* C6: when create_prodcat_file, buffered or streaming, is given M records *)
(* of which K fail validation and K < M, the run returns success, the      *)
(* output contains exactly M-K line-item groups, and the error list        *)
(* contains exactly K entries.                                             *)
(***************************************************************************)
PartialBatch(k) ==
    /\ runs[k].entry = "create_prodcat_file"
    /\ Len(Rejected(runs[k].products)) < Len(runs[k].products)

C6_PartialBatchAsStated ==
    \A k \in Returned :
        PartialBatch(k) =>
            /\ runs[k].ok
            /\ Len(OfKind(runs[k].after.lines, {"LIN"}))
                    = Len(runs[k].products) - Len(Rejected(runs[k].products))
            /\ Len(runs[k].errors) = Len(Rejected(runs[k].products))

(***************************************************************************)
(* C6, amended: ... the run returns success, the output contains exactly   *)
(* M-K line-item groups, and the error list contains exactly K entries     *)
(* for the rejected records, in input order, and after them one entry more *)
(* when the configured date format rejects the document date.              *)
(***************************************************************************)
C6_PartialBatch ==
    \A k \in Returned :
        PartialBatch(k) =>
            /\ runs[k].ok
            /\ Len(OfKind(runs[k].after.lines, {"LIN"}))
                    = Len(runs[k].products) - Len(Rejected(runs[k].products))
            /\ Len(runs[k].errors)
                    = Len(Rejected(runs[k].products)) + Len(DocumentDate.errors)

C6_Witness ==
    \E k \in 1..Len(runs) :
        /\ PartialBatch(k)
        /\ Rejected(runs[k].products) # <<>>
        /\ runs[k].ok
        /\ runs[k].mode = "streaming"
        /\ DocumentDate.errors # <<>>

(***************************************************************************)
(* C7: when no records are supplied, or every supplied record fails        *)
(* validation, the generation call returns failure, writes nothing to the  *)
(* destination and leaves a reason in the error list, in buffered mode and *)
(* in streaming mode alike.                                                *)
(***************************************************************************)
C7_NothingAcceptedFails ==
    \A k \in Returned :
        Accepted(runs[k].products) = <<>> =>
            /\ ~runs[k].ok
            /\ runs[k].after = runs[k].before
            /\ runs[k].errors # <<>>

(***************************************************************************)
(* C8: for the same generator state, the same record list and the same     *)
(* clock value, create_prodcat_file in buffered mode and                   *)
(* create_prodcat_file_streaming produce the same success flag and the     *)
(* same segment sequence.  Both runs start from the state                  *)
(* create_prodcat_file resets the generator to.                            *)
(***************************************************************************)
C8_BufferedStreamingEquivalent ==
    \A a, b \in Calls :
        (/\ runs[a].mode = "buffered"
         /\ runs[b].mode = "streaming"
         /\ runs[a].products = runs[b].products
         /\ runs[a].clock = runs[b].clock)
        => /\ runs[a].ok = runs[b].ok
           /\ runs[a].after.lines = runs[b].after.lines

(***************************************************************************)
(* C9: the line-item groups appear in the output in the input order of the *)
(* accepted records, and inside every group the segments appear in the     *)
(* order: line-item number, supplementary identifier for supplier_code (if *)
(* present), supplementary identifier for barcode (if present),            *)
(* description, price, quantity, cross-reference for internal_ref (if      *)
(* present).                                                               *)
(***************************************************************************)
GroupInOrder(n, product) ==
    <<Line("LIN", _build_lin_segment(n))>>
    \o (IF Truthy(product.supplier_code)
        THEN <<Line("PIA", _build_pia_segment(product.supplier_code, "SA"))>>
        ELSE <<>>)
    \o (IF Truthy(product.barcode)
        THEN <<Line("PIA", _build_pia_segment(product.barcode, "GT"))>>
        ELSE <<>>)
    \o <<Line("IMD", _build_imd_segment(product.description))>>
    \o <<Line("PRI", _build_pri_segment(Str(PyStr(product.price)), product.currency))>>
    \o <<Line("QTY", _build_qty_segment(Str(PyStr(product.quantity)), product.unit))>>
    \o (IF Truthy(product.internal_ref)
        THEN <<Line("RFF", _build_rff_segment("AAN", product.internal_ref))>>
        ELSE <<>>)

RECURSIVE GroupsInOrder(_, _)
GroupsInOrder(n, records) ==
    IF records = <<>> THEN <<>>
    ELSE GroupInOrder(n, Head(records)) \o GroupsInOrder(n + 1, Tail(records))

C9_GroupsInInputOrder ==
    \A k \in Returned :
        runs[k].ok =>
            OfKind(runs[k].after.lines, GroupKinds)
                = GroupsInOrder(1, Accepted(runs[k].products))

C9_Witness ==
    \E k \in 1..Len(runs) :
        /\ runs[k].ok
        /\ runs[k].products = <<Laptop, Widget>>
        /\ Kinds(OfKind(runs[k].after.lines, GroupKinds))
                = <<"LIN", "PIA", "PIA", "IMD", "PRI", "QTY", "RFF",
                    "LIN", "IMD", "PRI", "QTY">>

(***************************************************************************)
(* C10: when create_prodcat_files splits one record collection into        *)
(* several output messages, no two outputs of the split share their        *)
(* message reference or their interchange control reference.               *)
(***************************************************************************)
C10_SplitOutputsOwnReferences ==
    \A a, b \in 1..Len(runs) :
        (a < b /\ runs[a].ok /\ runs[b].ok) =>
            /\ MessageReferenceOf(runs[a].after.lines)
                    # MessageReferenceOf(runs[b].after.lines)
            /\ ControlReferenceOf(runs[a].after.lines)
                    # ControlReferenceOf(runs[b].after.lines)


(***************************************************************************)
(* C11: constructing a generator normalizes the sender and receiver        *)
(* identifiers (trimmed, uppercased); the constructor fails, before any    *)
(* record is processed or any output produced, exactly when a normalized   *)
(* identifier is not 1-35 characters drawn from letters, digits, hyphen,   *)
(* period and space; every generator constructed successfully holds        *)
(* identifiers matching that grammar.                                      *)
(***************************************************************************)
Normalized(id) == StrUpper(StrStrip(id))

\* letters, digits, hyphen, period and space
GrammarChars ==
    {"a", "b", "c", "d", "e", "f", "g", "h", "i", "j", "k", "l", "m", "n",
     "o", "p", "q", "r", "s", "t", "u", "v", "w", "x", "y", "z",
     "A", "B", "C", "D", "E", "F", "G", "H", "I", "J", "K", "L", "M", "N",
     "O", "P", "Q", "R", "S", "T", "U", "V", "W", "X", "Y", "Z",
     "0", "1", "2", "3", "4", "5", "6", "7", "8", "9", "-", ".", " "}

IdentifierGrammar(id) ==
    /\ Len(id) \in 1..35
    /\ \A k \in 1..Len(id) : CharAt(id, k) \in GrammarChars

\* the constructor call made last: instances only grows, and every call is
\* the last one in the state it leads to
Constructing == {Len(instances)} \ {0}

C11_ConstructionChecksIdentifiers ==
    /\ \A g \in Constructing :
            instances[g].raised
                <=> ~(/\ IdentifierGrammar(Normalized(instances[g].sender_id))
                      /\ IdentifierGrammar(Normalized(instances[g].receiver_id)))
    /\ Self = 0 => /\ files = <<>>
                   /\ runs = <<>>
                   /\ errors = <<>>
                   /\ pc = "new"
    /\ Self # 0 => /\ sender = Normalized(instances[Self].sender_id)
                   /\ receiver = Normalized(instances[Self].receiver_id)
                   /\ IdentifierGrammar(sender)
                   /\ IdentifierGrammar(receiver)
    /\ \A k \in 1..Len(runs) : runs[k].generator # 0

\* 'bad id!' was refused, ' a.1 ' was taken as 'A.1', and that generator wrote a file
C11_Witness ==
    /\ \E g \in 1..Len(instances) :
            instances[g].raised /\ instances[g].sender_id = "bad id!"
    /\ Self # 0
    /\ instances[Self].sender_id = " a.1 "
    /\ sender = "A.1"
    /\ \E k \in 1..Len(runs) : runs[k].ok /\ runs[k].generator = Self

(***************************************************************************)
(* C12: validate_product applies its checks in the fixed order             *)
(* required-fields, price, quantity, currency, unit, description character *)
(* set, optional identifier fields, custom rules, and stops at the first   *)
(* failing check: a rejected record appends exactly one reason to the      *)
(* error list, the reason of the earliest failing check, and an accepted   *)
(* record appends none.  Each check is evaluated here on its own.          *)
(***************************************************************************)
CheckFails(n, p) ==
    CASE n = 1 -> \E f \in {"description", "quantity", "unit", "price", "currency"} :
                        ~Truthy(p[f])
      [] n = 2 -> ~ParseFloat(StrStrip(PyStr(p.price))).positive
      [] n = 3 -> ~ParseFloat(StrStrip(PyStr(p.quantity))).positive
      [] n = 4 -> StrUpper(StrStrip(PyStr(p.currency)))
                        \notin CONFIG.validation.valid_currencies
      [] n = 5 -> StrUpper(StrStrip(PyStr(p.unit))) \notin CONFIG.validation.valid_units
      [] n = 6 -> /\ CONFIG.default_values.syntax_identifier = Str("UNOA")
                  /\ ~IsAscii(StrStrip(PyStr(p.description)))
      [] n = 7 -> \E f \in {"supplier_code", "barcode", "internal_ref"} :
                        /\ Truthy(p[f])
                        /\ p[f].t = "str"
                        /\ ~ReMatch(CONFIG.validation.allowed_id_chars, p[f].v)
      [] n = 8 -> \E k \in 1..Len(_custom_validators) :
                        /\ p[_custom_validators[k].field] # None
                        /\ ~ApplyValidator(_custom_validators[k].validator,
                                           p[_custom_validators[k].field])

\* the check a reason comes from
ReasonCheck(reason) ==
    CASE StartsWith(reason, "Product missing required fields: ") -> 1
      [] StartsWith(reason, "Invalid price value: ") -> 2
      [] StartsWith(reason, "Price must be positive: ") -> 2
      [] StartsWith(reason, "Invalid quantity value: ") -> 3
      [] StartsWith(reason, "Quantity must be positive: ") -> 3
      [] StartsWith(reason, "Invalid currency: ") -> 4
      [] StartsWith(reason, "Invalid unit: ") -> 5
      [] StartsWith(reason, "Description contains non-ASCII characters: ") -> 6
      [] StartsWith(reason, "Invalid supplier_code: ") -> 7
      [] StartsWith(reason, "Invalid barcode: ") -> 7
      [] StartsWith(reason, "Invalid internal_ref: ") -> 7
      [] OTHER -> 8

FailingChecks(p) == {n \in 1..8 : CheckFails(n, p)}

C13_ValidationNeverRaises ==
    verdict.done => ~verdict.raises

(***************************************************************************)
(* C14: no exception crosses the generation boundary: for every record     *)
(* list, create_prodcat_file (buffered or streaming) returns a boolean     *)
(* success flag, and whenever it returns failure the error list it leaves  *)
(* behind is non-empty.                                                    *)
(***************************************************************************)
C14_NoExceptionCrossesBoundary ==
    \A k \in Returned :
        /\ ~runs[k].raised
        /\ ~runs[k].ok => runs[k].errors # <<>>

(***************************************************************************)
(* C15: verify_edi_file reports valid exactly when the first three         *)
(* segments are tagged UNB, UNH, BGM in that order and the last two        *)
(* segments are tagged UNT then UNZ in that order, and a file it reports   *)
(* valid has an empty error list; so every file written by a successful    *)
(* create_prodcat_file, whose envelope is in that order, verifies valid.   *)
(***************************************************************************)
TagOf(line) == Fields(line.text)[1]

EnvelopeInOrder(lines) ==
    /\ Len(lines) >= 3
    /\ <<TagOf(lines[1]), TagOf(lines[2]), TagOf(lines[3])>> = <<"UNB", "UNH", "BGM">>
    /\ <<TagOf(lines[Len(lines) - 1]), TagOf(lines[Len(lines)])>> = <<"UNT", "UNZ">>

C15_VerifiesEnvelope ==
    verification.done =>
        /\ verification.valid <=> EnvelopeInOrder(files["prodcat.edi"])
        /\ verification.valid => verification.errors = <<>>

(***************************************************************************)
(* C16: in _format_segment an absent (None) sub-value inside a Composite   *)
(* contributes an empty position, so the positions of the sub-values after *)
(* it are preserved: every composite that is rendered shows as many        *)
(* component positions as it has sub-values, and the composite             *)
(* [id, None, None, None, '9'] of the party segment renders 'id::::9'.     *)
(***************************************************************************)
\* every sub-value in its position, an absent one as an empty position
ComponentPositions(composite) ==
    Join(Delimiters.component,
         [m \in 1..Len(composite.v) |->
            IF composite.v[m].t = "none" THEN "" ELSE _escape_data(PyStr(composite.v[m]))])

C16_AbsentComponentKeepsPosition ==
    rendered.done =>
        \A k \in 1..(Len(Fields(rendered.out)) - 1) :
            args.elements[k].t = "list" =>
                Fields(rendered.out)[k + 1] = ComponentPositions(args.elements[k])

(***************************************************************************)
(* C17: _format_segment trims trailing empty positions and never interior  *)
(* ones: the rendered segment keeps every position up to and including the *)
(* last non-empty one, interior empties as empty positions between         *)
(* delimiters, and drops all empty positions after it; ['A', '', 'B', '']  *)
(* renders A, empty, B and ['A', '', ''] renders only A.                   *)
(***************************************************************************)
Positions(element_list) ==
    [k \in 1..Len(element_list) |-> ElementText(element_list[k])]

LastNonEmpty(positions) ==
    IF \A k \in 1..Len(positions) : positions[k] = "" THEN 0
    ELSE CHOOSE k \in 1..Len(positions) :
            /\ positions[k] # ""
            /\ \A m \in (k + 1)..Len(positions) : positions[m] = ""

C17_TrailingTrimInteriorKept ==
    rendered.done =>
        LET positions == Positions(args.elements)
            kept      == SubSeq(positions, 1, LastNonEmpty(positions))
        IN  /\ rendered.out
                 = Join(Delimiters.data, <<args.tag>> \o kept) \o Delimiters.terminator
            /\ Len(Fields(rendered.out)) = 1 + LastNonEmpty(positions)
            /\ args.elements = <<Str("A"), Str(""), Str("B"), Str("")>>
                    => rendered.out = "NAD+A++B'"
            /\ args.elements = <<Str("A"), Str(""), Str("")>>
                    => rendered.out = "NAD+A'"

C17_Witness ==
    /\ rendered.done
    /\ args.elements = <<Str("A"), Str(""), Str("B"), Str("")>>
    /\ rendered.out = "NAD+A++B'"
    /\ segment_count = 1

(***************************************************************************)
(* C18: generation is deterministic: two generation runs given identical   *)
(* sender, receiver, record list and options (the configuration file the   *)
(* generator was constructed with, the syntax version selected on it, the  *)
(* mode), and reading the same clock value, produce identical output and   *)
(* identical error lists.                                                  *)
(***************************************************************************)
C18_Deterministic ==
    \A a, b \in Calls :
        (/\ runs[a].options = runs[b].options
         /\ runs[a].products = runs[b].products
         /\ runs[a].use_streaming = runs[b].use_streaming
         /\ runs[a].clock = runs[b].clock)
        => /\ runs[a].ok = runs[b].ok
           /\ runs[a].after = runs[b].after
           /\ runs[a].errors = runs[b].errors

(***************************************************************************)
(* C19: no shared global configuration is mutated: loading an external     *)
(* configuration into one generator or selecting a syntax version on it    *)
(* changes only that generator's configuration; every generator that was   *)
(* constructed with defaults, before or afterwards, and had no version     *)
(* selected on it validates records and renders segments with the default  *)
(* configuration.  Every generator reads the CONFIG of the class.          *)
(***************************************************************************)
ConfigOf(g) == CONFIG

C19_ConfigurationNotShared ==
    \A g \in 1..Len(instances) :
        (/\ ~instances[g].raised
         /\ instances[g].config_file = None
         /\ instances[g].version = "")
        => /\ ConfigOf(g).delimiters = DefaultConfig.delimiters
           /\ ConfigOf(g).default_values = DefaultConfig.default_values
           /\ ConfigOf(g).validation = DefaultConfig.validation

(***************************************************************************)
(* C20: at every point of a generation call, segment_count equals the      *)
(* number of segments rendered so far in that call (the lines assembled in *)
(* memory, or written to the file being streamed), also when the date      *)
(* segment is omitted because the document date fails its format check.    *)
(***************************************************************************)
C20_CountEqualsSegmentsRendered ==
    /\ pc \in {"b_products", "b_write"} => segment_count = Len(buffer)
    /\ pc = "s_products" => segment_count = Len(files[filename])

(***************************************************************************)
(* C21: every generation entry point starts from a fresh run state:        *)
(* through create_prodcat_file or directly through                         *)
(* create_prodcat_file_streaming, segment_count is 0 and the error list is *)
(* empty when the call begins its work, before any segment is rendered.    *)
(***************************************************************************)
C21_FreshRunState ==
    pc \in {"b_validate", "s_open"} => segment_count = 0 /\ errors = <<>>

(***************************************************************************)
(* C22: emission follows the order interchange header, message header,     *)
(* begin-of-message, optional date segment, two party segments (buyer with *)
(* the receiver identifier, then supplier with the sender identifier), the *)
(* line-item groups, message trailer, interchange trailer.  In both modes  *)
(* what has been emitted so far is a beginning of that order, no line-item *)
(* segment precedes the party segments, the two trailers come last, after  *)
(* the last record, and a step of the assembly only adds to what was       *)
(* emitted before it.                                                      *)
(***************************************************************************)
HeaderKinds(dated) ==
    <<"UNB", "UNH", "BGM">> \o (IF dated THEN <<"DTM">> ELSE <<>>) \o <<"NAD", "NAD">>

\* the party segment carries the qualifier and, next, the identifier as escaped
IsParty(line, qualifier, id) ==
    LET fields == Fields(line.text)
    IN  /\ Len(fields) >= 3
        /\ fields[2] = qualifier
        /\ Split(fields[3], Delimiters.component)[1] = _escape_data(id)

EmittedInOrder(lines, complete) ==
    \E dated \in BOOLEAN :
        LET h     == HeaderKinds(dated)
            n     == Len(h)
            kinds == Kinds(lines)
            items == IF complete THEN Len(lines) - 2 ELSE Len(lines)
        IN  /\ items >= n
            /\ SubSeq(kinds, 1, n) = h
            /\ IsParty(lines[n - 1], "BY", receiver)
            /\ IsParty(lines[n], "SU", sender)
            /\ \A k \in (n + 1)..items : kinds[k] \in GroupKinds
            /\ complete => SubSeq(kinds, items + 1, items + 2) = <<"UNT", "UNZ">>

IsPrefix(s, t) == Len(s) <= Len(t) /\ SubSeq(t, 1, Len(s)) = s

EmissionInOrder ==
    /\ pc = "b_products" => EmittedInOrder(buffer, FALSE)
    /\ pc = "b_write" => EmittedInOrder(buffer, TRUE)
    /\ pc = "s_products" => EmittedInOrder(files[filename], FALSE)
    /\ \A k \in Returned : runs[k].ok => EmittedInOrder(runs[k].after.lines, TRUE)

OnlyAdds ==
    /\ pc = "b_products" => IsPrefix(buffer, buffer')
    /\ pc = "s_products" => IsPrefix(files[filename], files'[filename])

C22_EmissionSequential == []EmissionInOrder /\ [][OnlyAdds]_vars

\* a streamed message with the date segment and two line-item groups, returned
C22_Witness ==
    \E k \in Returned :
        /\ runs[k].ok
        /\ runs[k].mode = "streaming"
        /\ Len(OfKind(runs[k].after.lines, {"LIN"})) = 2
        /\ Len(OfKind(runs[k].after.lines, {"DTM"})) = 1
        /\ EmittedInOrder(runs[k].after.lines, TRUE)

(***************************************************************************)
(* C23: for every segment kind that has been registered, built-in or       *)
(* through register_segment_template, whatever its layout,                 *)
(* _build_segment_from_template returns a rendered segment for any set of  *)
(* params and the segment counter goes up by exactly one; only a kind that *)
(* was never registered aborts the operation.                              *)
(***************************************************************************)
C23_RegisteredKindAlwaysBuilds ==
    built.done =>
        /\ built.raises <=> request.segment_type \notin DOMAIN _segment_templates
        /\ ~built.raises => segment_count = 1

(***************************************************************************)
(* C24: _merge_configs deep-merges an external configuration into the      *)
(* defaults: an external configuration that sets one code under            *)
(* validation.date_formats keeps all other entries of that nested          *)
(* dictionary, so every default date format that no loaded configuration   *)
(* sets is still there, with its default pattern.                          *)
(***************************************************************************)
SetsDateFormat(config_file, code) ==
    /\ config_file # None
    /\ "validation" \in DOMAIN config_file
    /\ "date_formats" \in DOMAIN config_file.validation
    /\ code \in DOMAIN config_file.validation.date_formats

C24_DeepMergeKeepsNestedEntries ==
    \A code \in DOMAIN DefaultConfig.validation.date_formats :
        (\A g \in 1..Len(instances) :
            instances[g].raised \/ ~SetsDateFormat(instances[g].config_file, code))
        => /\ code \in DOMAIN CONFIG.validation.date_formats
           /\ CONFIG.validation.date_formats[code]
                = DefaultConfig.validation.date_formats[code]

(***************************************************************************)
(* C25: in every message produced, the interchange trailer declares        *)
(* message count 1 and carries the interchange control reference of the    *)
(* interchange header of that message, and the message trailer carries the *)
(* message reference of the message header of that message.                *)
(***************************************************************************)
C25_TrailersEchoReferences ==
    \A k \in Returned :
        runs[k].ok =>
            LET lines == runs[k].after.lines
                unt   == Fields(OfKind(lines, {"UNT"})[1].text)
                unz   == Fields(OfKind(lines, {"UNZ"})[1].text)
            IN  /\ Len(OfKind(lines, {"UNB", "UNH", "UNT", "UNZ"})) = 4
                /\ DeclaredMessages(lines) = "1"
                /\ unz[3] = ControlReferenceOf(lines)
                /\ unt[3] = MessageReferenceOf(lines)

\* a message has been produced, and its two references differ
C25_Witness ==
    \E k \in Returned :
        /\ runs[k].ok
        /\ ControlReferenceOf(runs[k].after.lines) = interchange_control_reference
        /\ MessageReferenceOf(runs[k].after.lines) = message_ref
        /\ interchange_control_reference # message_ref

(***************************************************************************)
(* C26: after create_prodcat_files has processed a record collection split *)
(* into several outputs, the error list contains the rejection reason of   *)
(* every rejected record of the whole collection, one per rejected record, *)
(* not only the reasons from the last output generated.                    *)
(***************************************************************************)
RejectionReasons(records) ==
    {ValidationFailure(records[k]) : k \in 1..Len(records)} \ {""}

C26_SplitKeepsEveryRejection ==
    (pc = "done" /\ Len(runs) >= 2) =>
        SelectSeq(errors, LAMBDA e : e \in RejectionReasons(catalogue))
            = ValidationErrors(catalogue)

(***************************************************************************)
(* C27: for a file written by a successful create_prodcat_file, the        *)
(* line-item count computed by verify_edi_file (statistics.product_lines,  *)
(* the number of segments whose text starts with 'LIN') equals the number  *)
(* of accepted records.                                                    *)
(***************************************************************************)
C27_ProductLinesCountAccepted ==
    \A k \in Returned :
        (runs[k].ok /\ runs[k].mode = "buffered") =>
            /\ verification.done
            /\ verification.product_lines = Len(Accepted(runs[k].products))

(***************************************************************************)
(* C28: what is emitted is what validation accepted: in every price        *)
(* segment the currency is a member of the allowed-currency set and in     *)
(* every quantity segment the unit is a member of the allowed-unit set,    *)
(* also for an accepted record that supplied them in lower case or with    *)
(* surrounding spaces.                                                     *)
(***************************************************************************)
\* the last sub-value of the last element of a rendered segment
LastComponent(line) ==
    LET fields     == Fields(line.text)
        components == Split(fields[Len(fields)], Delimiters.component)
    IN  components[Len(components)]

C28_EmittedCodesAreAllowed ==
    \A k \in Returned :
        runs[k].ok =>
            \A n \in 1..Len(runs[k].after.lines) :
                LET line == runs[k].after.lines[n]
                IN  /\ line.kind = "PRI" =>
                        LastComponent(line) \in CONFIG.validation.valid_currencies
                    /\ line.kind = "QTY" =>
                        LastComponent(line) \in CONFIG.validation.valid_units

(***************************************************************************)
(* C29: in every produced message the line-item numbers are the            *)
(* consecutive integers 1..K in output order, where K is the number of     *)
(* accepted records: rejected records leave no gap in the numbering, in    *)
(* buffered mode and in streaming mode, also across streaming chunks.      *)
(***************************************************************************)
\* the line-item number a line-item header carries, after the layout's tag
LineNumberOf(line) == Fields(line.text)[3]

C29_LineNumbersConsecutive ==
    \A k \in Returned :
        runs[k].ok =>
            LET headers == OfKind(runs[k].after.lines, {"LIN"})
            IN  /\ Len(headers) = Len(Accepted(runs[k].products))
                /\ \A n \in 1..Len(headers) : LineNumberOf(headers[n]) = NatStr(n)

\* streamed in chunks of one record: the first record is rejected and the
\* second, in the next chunk, is numbered 1
C29_Witness ==
    \E k \in Returned :
        /\ runs[k].ok
        /\ runs[k].mode = "streaming"
        /\ CONFIG.limits.chunk_size = SmallChunk
        /\ Len(runs[k].products) = 2
        /\ ~validate_product(runs[k].products[1])
        /\ validate_product(runs[k].products[2])
        /\ LineNumberOf(OfKind(runs[k].after.lines, {"LIN"})[1]) = "1"

(***************************************************************************)
(* C30: in buffered mode the sink receives the message once and whole:     *)
(* create_prodcat_file writes nothing to the destination until the         *)
(* complete segment sequence, both trailers included, has been assembled   *)
(* in memory, so a buffered run that fails during validation or assembly   *)
(* leaves the destination exactly as it was before the call.               *)
(***************************************************************************)
C30_BufferedWritesOnceWhole ==
    /\ pc \in {"b_validate", "b_header", "b_products", "b_write"}
            => Dest(files, filename) = before
    /\ pc = "b_write" => Kinds(SubSeq(buffer, Len(buffer) - 1, Len(buffer))) = <<"UNT", "UNZ">>
    /\ \A k \in Returned :
            runs[k].mode = "buffered" =>
                IF runs[k].ok
                THEN runs[k].after = [exists |-> TRUE, lines |-> buffer]
                ELSE runs[k].after = runs[k].before

\* a buffered run failed on a destination that held an earlier message
C30_Witness ==
    \E k \in Returned :
        /\ runs[k].mode = "buffered"
        /\ ~runs[k].ok
        /\ runs[k].before.exists
        /\ runs[k].before.lines # <<>>
        /\ runs[k].after = runs[k].before

=============================================================================
